---- MODULE Spec2Model ----
(***************************************************************************)
(* NutriGuard: the crop-yield estimator of ai_services.py                  *)
(* (CropPredictor.predict_yield, its baseline, advisory call, blend and    *)
(* result cache), the cache key of NutritionAnalyzer, the views register,  *)
(* predict_crop_yield and initiate_donation of app.py with their database  *)
(* tables, and the tokens, decorators and rate limiter of security.py.     *)
(*                                                                         *)
(* Numbers are fixed point, so that the arithmetic of the code is exact:   *)
(*   pH                         hundredths          (6.5     -> 650)       *)
(*   rainfall                   millimetres         (800     -> 800)       *)
(*   suitability scores         1/ScoreOne          (1.0     -> 12000)     *)
(*   yields, total production   hundredths of a ton (8.0     -> 800)       *)
(*   confidences, percentages   tenths              (75.0    -> 750)       *)
(*   farm size                  tenths of a hectare (2.0     -> 20)        *)
(*   time                       seconds                                    *)
(* Python's round() on a binary float that sits on a decimal tie goes      *)
(* either way, depending on the float's representation error: Round gives  *)
(* both neighbours on an exact tie and the one nearest value otherwise.    *)
(***************************************************************************)
EXTENDS Integers, Sequences, FiniteSets, TLC

VARIABLES
    now,        \* time.time() / datetime.now()
    cache,      \* CropPredictor.cache: cache key -> [result, timestamp]
    pc,         \* per thread: where its predict_yield call stands
    args,       \* per thread: the arguments of its predict_yield call
    frame,      \* per thread: the locals of predict_yield and _get_from_cache
    ret,        \* per thread: what the call gave its caller
    obs,        \* per thread: what an observer of the call saw (history)
    storeTime,  \* history: cache key -> time of the last _cache_result
    prev,       \* history: the last completed call
    keyCalls,   \* history: the calls of NutritionAnalyzer._generate_cache_key
    db,         \* app.py: the committed rows of the tables users and
                \* crop_predictions
    req,        \* app.py: per thread, the HTTP request it is serving
    g,          \* security.py: per thread, flask.g of the request it serves
    sreq,       \* security.py: per thread, the request in its decorators
    redis,      \* security.py: the sorted sets of the Redis client, by key
    hist        \* history: revoke_token calls, decorated requests, limiter
                \* calls

\* the state of the CropPredictor and of its callers
estimatorVars == <<cache, pc, args, frame, ret, obs, storeTime, prev>>

\* the state of the NutritionAnalyzer keys and of the Flask application
appVars == <<keyCalls, db, req>>

\* the state of the security module: application contexts, requests in the
\* decorators, Redis
securityVars == <<g, sreq, redis, hist>>

vars ==
    <<now, cache, pc, args, frame, ret, obs, storeTime, prev, keyCalls, db, req,
      g, sreq, redis, hist>>

----------------------------------------------------------------------------
(* Values *)

None == [none |-> TRUE]

EmptyDict == [k \in {} |-> 0]

\* dict.get(key, default)
Get(d, k, default) == IF k \in DOMAIN d THEN d[k] ELSE default

\* JSON / Python values carry their type: [num |-> n], [str |-> s],
\* [list |-> <<...>>], [null |-> TRUE]
Num(n) == [num |-> n]

Str(s) == [str |-> s]

List(l) == [list |-> l]

IsNum(v) == DOMAIN v = {"num"}

Max(a, b) == IF a >= b THEN a ELSE b

\* round(n / d, ...) to the unit of the result, d > 0: the candidates.
Round(n, d) ==
    LET q == n \div d
        r == n % d
    IN  IF 2 * r < d THEN {q}
        ELSE IF 2 * r > d THEN {q + 1}
        ELSE {q, q + 1}

----------------------------------------------------------------------------
(* CropPredictor.__init__ *)

cache_ttl == 7200

\* the score 1.0 in fixed point; every division of the two suitability
\* functions over crop_data is exact in this unit
ScoreOne == 12000

crop_data ==
    [maize |->
        [optimal_ph |-> <<600, 700>>, optimal_rainfall |-> <<500, 1200>>,
         growing_season |-> 120, yield_range |-> <<2, 8>>],
     rice |->
        [optimal_ph |-> <<550, 700>>, optimal_rainfall |-> <<1000, 2000>>,
         growing_season |-> 150, yield_range |-> <<3, 10>>],
     wheat |->
        [optimal_ph |-> <<600, 750>>, optimal_rainfall |-> <<300, 800>>,
         growing_season |-> 180, yield_range |-> <<2, 6>>],
     beans |->
        [optimal_ph |-> <<600, 700>>, optimal_rainfall |-> <<400, 800>>,
         growing_season |-> 90, yield_range |-> <<1, 3>>],
     sweet_potato |->
        [optimal_ph |-> <<580, 620>>, optimal_rainfall |-> <<600, 1000>>,
         growing_season |-> 120, yield_range |-> <<8, 25>>]]

----------------------------------------------------------------------------
(* Baseline *)

\* a slip: the optimal range taken without its two ends
PhSuitabilityOpenRange(actual_ph, optimal_range) ==
    LET min_ph == optimal_range[1]
        max_ph == optimal_range[2]
    IN  IF min_ph < actual_ph /\ actual_ph < max_ph THEN ScoreOne
        ELSE IF actual_ph < min_ph
             THEN Max(0, ScoreOne - ((min_ph - actual_ph) * ScoreOne) \div 200)
             ELSE Max(0, ScoreOne - ((actual_ph - max_ph) * ScoreOne) \div 200)

\* a slip: the pH penalty spread over four units instead of two
PhSuitabilityHalfSlope(actual_ph, optimal_range) ==
    LET min_ph == optimal_range[1]
        max_ph == optimal_range[2]
    IN  IF min_ph <= actual_ph /\ actual_ph <= max_ph THEN ScoreOne
        ELSE IF actual_ph < min_ph
             THEN Max(0, ScoreOne - ((min_ph - actual_ph) * ScoreOne) \div 400)
             ELSE Max(0, ScoreOne - ((actual_ph - max_ph) * ScoreOne) \div 400)

\* (min_ph - actual_ph) / 2 in score units: pH is in hundredths
_calculate_ph_suitability(actual_ph, optimal_range) ==
    LET min_ph == optimal_range[1]
        max_ph == optimal_range[2]
    IN  IF min_ph <= actual_ph /\ actual_ph <= max_ph THEN ScoreOne
        ELSE IF actual_ph < min_ph
             THEN Max(0, ScoreOne - ((min_ph - actual_ph) * ScoreOne) \div 200)
             ELSE Max(0, ScoreOne - ((actual_ph - max_ph) * ScoreOne) \div 200)

\* a slip: the excess-rain penalty left without its floor of 0
RainfallSuitabilityNoFloor(actual_rainfall, optimal_range) ==
    LET min_rainfall == optimal_range[1]
        max_rainfall == optimal_range[2]
    IN  IF min_rainfall <= actual_rainfall /\ actual_rainfall <= max_rainfall
        THEN ScoreOne
        ELSE IF actual_rainfall < min_rainfall
             THEN Max(0, (actual_rainfall * ScoreOne) \div min_rainfall)
             ELSE LET excess == actual_rainfall - max_rainfall
                  IN  ScoreOne - (excess * ScoreOne) \div max_rainfall

_calculate_rainfall_suitability(actual_rainfall, optimal_range) ==
    LET min_rainfall == optimal_range[1]
        max_rainfall == optimal_range[2]
    IN  IF min_rainfall <= actual_rainfall /\ actual_rainfall <= max_rainfall
        THEN ScoreOne
        ELSE IF actual_rainfall < min_rainfall
             THEN Max(0, (actual_rainfall * ScoreOne) \div min_rainfall)
             ELSE LET excess == actual_rainfall - max_rainfall
                  IN  Max(0, ScoreOne - (excess * ScoreOne) \div max_rainfall)

\* a slip: the generic confidence taken for the default 50
GenericPredictionAt50 ==
    [predicted_yield_tons_per_hectare |-> 200,
     confidence |-> 500,
     ph_suitability |-> 500,
     rainfall_suitability |-> 500,
     growing_season_days |-> 120]

_get_generic_prediction ==
    [predicted_yield_tons_per_hectare |-> 200,
     confidence |-> 300,
     ph_suitability |-> 500,
     rainfall_suitability |-> 500,
     growing_season_days |-> 120]

\* ph_score and rainfall_score of _get_baseline_prediction, for a crop of
\* crop_data
SuitabilityScores(crop_type, soil_data, weather_data) ==
    LET crop_info == crop_data[crop_type]
    IN  [ph_score |-> _calculate_ph_suitability(
                          Get(soil_data, "ph", 650), crop_info.optimal_ph),
         rainfall_score |-> _calculate_rainfall_suitability(
                          Get(weather_data, "expected_rainfall", 800),
                          crop_info.optimal_rainfall)]

\* The baselines _get_baseline_prediction can return (one, off a rounding tie).
_get_baseline_prediction(crop_type, soil_data, weather_data) ==
    IF crop_type \notin DOMAIN crop_data THEN {_get_generic_prediction}
    ELSE
      LET crop_info == crop_data[crop_type]
          scores == SuitabilityScores(crop_type, soil_data, weather_data)
          \* overall_score = overall2 / (2 * ScoreOne)
          overall2 == scores.ph_score + scores.rainfall_score
          min_yield == crop_info.yield_range[1]
          max_yield == crop_info.yield_range[2]
          \* predicted_yield = yield2 / (2 * ScoreOne)
          yield2 == min_yield * 2 * ScoreOne + (max_yield - min_yield) * overall2
      IN  { [predicted_yield_tons_per_hectare |-> y,
             confidence |-> c,
             ph_suitability |-> p,
             rainfall_suitability |-> r,
             growing_season_days |-> crop_info.growing_season] :
               y \in Round(yield2 * 100, 2 * ScoreOne),
               c \in Round(overall2 * 1000, 2 * ScoreOne),
               p \in Round(scores.ph_score * 1000, ScoreOne),
               r \in Round(scores.rainfall_score * 1000, ScoreOne) }

----------------------------------------------------------------------------
(* Advisory reply: text, parsing, fallback *)

\* A reply text is a sequence of tokens: an opening brace, a closing brace,
\* prose, or one "key": value member of a JSON object.
LB == [c |-> "{"]

RB == [c |-> "}"]

Txt == [c |-> "txt"]

Kv(k, v) == [c |-> "kv", k |-> k, v |-> v]

\* str.find / str.rfind: 0-based index of the first / last token ch, or -1
Find(text, ch) ==
    LET at == {i \in 1..Len(text) : text[i].c = ch}
    IN  IF at = {} THEN -1 ELSE (CHOOSE i \in at : \A j \in at : i <= j) - 1

RFind(text, ch) ==
    LET at == {i \in 1..Len(text) : text[i].c = ch}
    IN  IF at = {} THEN -1 ELSE (CHOOSE i \in at : \A j \in at : i >= j) - 1

\* text[start:end] of Python, start >= -1 and end >= 0
PySlice(text, start, end) ==
    LET lo == IF start < 0 THEN Max(0, Len(text) + start) ELSE start
        hi == IF end > Len(text) THEN Len(text) ELSE end
    IN  IF lo >= hi THEN <<>> ELSE SubSeq(text, lo + 1, hi)

\* json.loads succeeds on "{" member* "}" and raises on anything else
JsonWellFormed(s) ==
    /\ Len(s) >= 2
    /\ s[1].c = "{"
    /\ s[Len(s)].c = "}"
    /\ \A i \in 2..(Len(s) - 1) : s[i].c = "kv"

\* the dict of a well-formed object: a repeated key keeps its last value
JsonObject(s) ==
    LET keys == {s[i].k : i \in 2..(Len(s) - 1)}
        last(k) == CHOOSE i \in 2..(Len(s) - 1) :
                      /\ s[i].k = k
                      /\ \A j \in 2..(Len(s) - 1) : s[j].k = k => j <= i
    IN  [k \in keys |-> s[last(k)].v]

_get_fallback_ai_analysis ==
    [ai_yield_prediction |-> Num(0),
     risk_factors |-> List(<<"Weather uncertainty", "Soil conditions">>),
     recommendations |-> List(<<"Consult local agricultural extension officer">>),
     planting_time |-> Str("Follow local seasonal patterns"),
     confidence |-> Num(500),
     market_considerations |-> List(<<"Monitor local market prices">>)]

\* a slip: the span cut at the first "}" instead of the last
ParseToFirstClose(response_text) ==
    LET json_start == Find(response_text, "{")
        json_end == Find(response_text, "}") + 1
        json_str == PySlice(response_text, json_start, json_end)
    IN  IF JsonWellFormed(json_str) THEN JsonObject(json_str)
        ELSE _get_fallback_ai_analysis

_parse_ai_response(response_text) ==
    LET json_start == Find(response_text, "{")
        json_end == RFind(response_text, "}") + 1
        json_str == PySlice(response_text, json_start, json_end)
    IN  IF JsonWellFormed(json_str) THEN JsonObject(json_str)
        ELSE _get_fallback_ai_analysis

\* What the advisory service does on one call: it fails (the client raises)
\* or it replies with a text.
ServiceError == [kind |-> "error"]

Reply(text) == [kind |-> "reply", text |-> text]

\* _get_ai_crop_analysis, given what the service did: the analysis, and
\* whether logger.warning was called.
_get_ai_crop_analysis(outcome) ==
    IF outcome.kind = "error"
    THEN [analysis |-> _get_fallback_ai_analysis, warned |-> TRUE]
    ELSE [analysis |-> _parse_ai_response(outcome.text), warned |-> FALSE]

----------------------------------------------------------------------------
(* Blend *)

Raised(exc) == [raised |-> exc]

IsRaised(v) == "raised" \in DOMAIN v

\* a slip: the two weights swapped
CombinedYieldSwapped(baseline_yield, ai_yield) == 3 * baseline_yield + 7 * ai_yield

\* combined_yield = (0.7 * baseline_yield) + (0.3 * ai_yield), in thousandths
CombinedYield(baseline_yield, ai_yield) == 7 * baseline_yield + 3 * ai_yield

\* combined_confidence = (baseline_confidence + ai_confidence) / 2, in
\* twentieths
CombinedConfidence(baseline_confidence, ai_confidence) ==
    baseline_confidence + ai_confidence

\* a slip: a missing advisory yield taken for 0 instead of the baseline yield
CombinePredictionsYieldDefaultZero(baseline, ai_analysis, farm_size, date) ==
    LET baseline_yield == Get(baseline, "predicted_yield_tons_per_hectare", 0)
        ai_yield == Get(ai_analysis, "ai_yield_prediction", Num(0))
        baseline_confidence == Get(baseline, "confidence", 500)
        ai_confidence == Get(ai_analysis, "confidence", Num(500))
    IN  IF ~IsNum(ai_yield) \/ ~IsNum(ai_confidence)
        THEN {Raised("TypeError")}
        ELSE
          LET combined1000 == CombinedYield(baseline_yield, ai_yield.num)
              total10000 == combined1000 * farm_size
              confidence2 == CombinedConfidence(baseline_confidence, ai_confidence.num)
          IN  { [yield_per_hectare |-> y,
                 total_production_tons |-> tp,
                 confidence_score |-> c,
                 farm_size_hectares |-> farm_size,
                 risk_factors |-> Get(ai_analysis, "risk_factors", List(<<>>)),
                 recommendations |-> Get(ai_analysis, "recommendations", List(<<>>)),
                 planting_time |->
                     Get(ai_analysis, "planting_time", Str("Consult local experts")),
                 market_considerations |->
                     Get(ai_analysis, "market_considerations", List(<<>>)),
                 baseline_analysis |-> baseline,
                 prediction_date |-> date] :
                   y \in Round(combined1000, 10),
                   tp \in Round(total10000, 100),
                   c \in Round(confidence2, 2) }

\* The results _combine_predictions can return (one, off a rounding tie), or
\* the TypeError of arithmetic on a reply value that is no number.
_combine_predictions(baseline, ai_analysis, farm_size, date) ==
    LET baseline_yield == Get(baseline, "predicted_yield_tons_per_hectare", 0)
        ai_yield == Get(ai_analysis, "ai_yield_prediction", Num(baseline_yield))
        baseline_confidence == Get(baseline, "confidence", 500)
        ai_confidence == Get(ai_analysis, "confidence", Num(500))
    IN  IF ~IsNum(ai_yield) \/ ~IsNum(ai_confidence)
        THEN {Raised("TypeError")}
        ELSE
          LET \* combined_yield = combined1000 / 1000
              combined1000 == CombinedYield(baseline_yield, ai_yield.num)
              \* total_production = total10000 / 10000
              total10000 == combined1000 * farm_size
              \* combined_confidence = confidence2 / 20
              confidence2 == CombinedConfidence(baseline_confidence, ai_confidence.num)
          IN  { [yield_per_hectare |-> y,
                 total_production_tons |-> tp,
                 confidence_score |-> c,
                 farm_size_hectares |-> farm_size,
                 risk_factors |-> Get(ai_analysis, "risk_factors", List(<<>>)),
                 recommendations |-> Get(ai_analysis, "recommendations", List(<<>>)),
                 planting_time |->
                     Get(ai_analysis, "planting_time", Str("Consult local experts")),
                 market_considerations |->
                     Get(ai_analysis, "market_considerations", List(<<>>)),
                 baseline_analysis |-> baseline,
                 prediction_date |-> date] :
                   y \in Round(combined1000, 10),
                   tp \in Round(total10000, 100),
                   c \in Round(confidence2, 2) }

----------------------------------------------------------------------------
(* Cache key *)

\* the keys of the two dicts in sorted() order
SoilFields == <<"organic_matter", "ph", "type">>

WeatherFields == <<"expected_rainfall", "temperature_range">>

\* repr of a dict value: a number or a quoted string
Repr(k, v) ==
    IF k \in {"ph", "expected_rainfall"} THEN ToString(v) ELSE "'" \o v \o "'"

RECURSIVE ItemsFrom(_, _, _, _)
ItemsFrom(d, fields, i, first) ==
    IF i > Len(fields) THEN ""
    ELSE IF fields[i] \notin DOMAIN d THEN ItemsFrom(d, fields, i + 1, first)
    ELSE (IF first THEN "" ELSE ", ")
            \o "('" \o fields[i] \o "', " \o Repr(fields[i], d[fields[i]]) \o ")"
            \o ItemsFrom(d, fields, i + 1, FALSE)

\* str(sorted(d.items()))
StrSortedItems(d, fields) == "[" \o ItemsFrom(d, fields, 1, TRUE) \o "]"

\* hashlib.md5(...).hexdigest(): a digest that tells apart every two strings
\* the model builds
md5(s) == "md5(" \o s \o ")"

_generate_prediction_cache_key(crop_type, location, soil_data, weather_data) ==
    md5(crop_type \o "_" \o location
            \o "_" \o StrSortedItems(soil_data, SoilFields)
            \o "_" \o StrSortedItems(weather_data, WeatherFields))

----------------------------------------------------------------------------
(* Cache *)

\* a slip: an entry still served at the age of exactly the TTL
LiveAtTtl(time, timestamp) == time - timestamp <= cache_ttl

\* time.time() - timestamp < self.cache_ttl
Live(time, timestamp) == time - timestamp < cache_ttl

\* a slip: the expired entry left where it is
DelNothing(c, k) == c

\* del self.cache[cache_key]
Del(c, k) == [x \in DOMAIN c \ {k} |-> c[x]]

\* a slip: _cache_result that stores nothing
PutNowhere(c, k, result, time) == c

\* a slip: the first write wins, setdefault for assignment
PutIfAbsent(c, k, result, time) ==
    IF k \in DOMAIN c THEN c
    ELSE [x \in DOMAIN c \cup {k} |->
             IF x = k THEN [result |-> result, timestamp |-> time] ELSE c[x]]

\* a slip: every store sweeps the expired entries out of the cache
PutAndSweep(c, k, result, time) ==
    [x \in {y \in DOMAIN c : time - c[y].timestamp < cache_ttl} \cup {k} |->
        IF x = k THEN [result |-> result, timestamp |-> time] ELSE c[x]]

\* a slip: a result built on the fallback advisory is left out of the cache
PutUnlessFallback(c, k, result, time) ==
    IF result.risk_factors = _get_fallback_ai_analysis.risk_factors THEN c
    ELSE [x \in DOMAIN c \cup {k} |->
             IF x = k THEN [result |-> result, timestamp |-> time] ELSE c[x]]

\* self.cache[cache_key] = (result, time.time())
Put(c, k, result, time) ==
    [x \in DOMAIN c \cup {k} |->
        IF x = k THEN [result |-> result, timestamp |-> time] ELSE c[x]]

----------------------------------------------------------------------------
(* predict_yield, one step at a time *)

NThreads == 2

Threads == 1..NThreads

FreshFrame(key) ==
    [cache_key |-> key, entry |-> None, scores |-> None,
     baseline_prediction |-> None, ai_analysis |-> None, result |-> None]

FreshObs(c) ==
    [called |-> FALSE, warned |-> FALSE, found |-> FALSE, hit |-> FALSE,
     cmpTime |-> -1, outcome |-> None, cache0 |-> c]

Returned(result) == [value |-> result]

\* the except clause of predict_yield: any exception becomes AIServiceError
AIServiceError(cause) == [raised |-> "AIServiceError", cause |-> cause]

\* bool(cached_result): a dict is true unless it is empty
Truthy(d) == DOMAIN d # {}

\* The caller calls predict_yield(a): the key is derived first.
Call(t, argset) ==
    /\ pc[t] \in {"idle", "done"}
    /\ \E a \in argset :
         /\ args' = [args EXCEPT ![t] = a]
         /\ frame' = [frame EXCEPT ![t] =
                FreshFrame(_generate_prediction_cache_key(
                    a.crop_type, a.location, a.soil_data, a.weather_data))]
    /\ pc' = [pc EXCEPT ![t] = "gfc_test"]
    /\ ret' = [ret EXCEPT ![t] = None]
    /\ obs' = [obs EXCEPT ![t] = FreshObs(cache)]
    /\ prev' = IF pc[t] = "done"
               THEN [cache_key |-> frame[t].cache_key, ret |-> ret[t],
                     args |-> args[t], hit |-> obs[t].hit]
               ELSE prev
    /\ UNCHANGED <<now, cache, storeTime>>
    /\ UNCHANGED <<appVars, securityVars>>

\* _get_from_cache: if cache_key in self.cache
GfcTest(t) ==
    /\ pc[t] = "gfc_test"
    /\ IF frame[t].cache_key \in DOMAIN cache
       THEN /\ pc' = [pc EXCEPT ![t] = "gfc_read"]
            /\ obs' = [obs EXCEPT ![t].found = TRUE]
       ELSE /\ pc' = [pc EXCEPT ![t] = "baseline"]
            /\ obs' = obs
    /\ UNCHANGED <<now, cache, args, frame, ret, storeTime, prev>>
    /\ UNCHANGED <<appVars, securityVars>>

\* _get_from_cache: result, timestamp = self.cache[cache_key]
GfcRead(t) ==
    /\ pc[t] = "gfc_read"
    /\ IF frame[t].cache_key \in DOMAIN cache
       THEN /\ frame' = [frame EXCEPT ![t].entry = cache[frame[t].cache_key]]
            /\ pc' = [pc EXCEPT ![t] = "gfc_cmp"]
            /\ ret' = ret
       ELSE /\ frame' = frame
            /\ pc' = [pc EXCEPT ![t] = "done"]
            /\ ret' = [ret EXCEPT ![t] = AIServiceError("KeyError")]
    /\ UNCHANGED <<now, cache, args, obs, storeTime, prev>>
    /\ UNCHANGED <<appVars, securityVars>>

\* _get_from_cache: if time.time() - timestamp < self.cache_ttl: return result
\* predict_yield: if cached_result: return cached_result
GfcCmp(t) ==
    /\ pc[t] = "gfc_cmp"
    /\ IF Live(now, frame[t].entry.timestamp)
       THEN IF Truthy(frame[t].entry.result)
            THEN /\ pc' = [pc EXCEPT ![t] = "done"]
                 /\ ret' = [ret EXCEPT ![t] = Returned(frame[t].entry.result)]
                 /\ obs' = [obs EXCEPT ![t].cmpTime = now, ![t].hit = TRUE]
            ELSE /\ pc' = [pc EXCEPT ![t] = "baseline"]
                 /\ ret' = ret
                 /\ obs' = [obs EXCEPT ![t].cmpTime = now]
       ELSE /\ pc' = [pc EXCEPT ![t] = "gfc_del"]
            /\ ret' = ret
            /\ obs' = [obs EXCEPT ![t].cmpTime = now]
    /\ UNCHANGED <<now, cache, args, frame, storeTime, prev>>
    /\ UNCHANGED <<appVars, securityVars>>

\* _get_from_cache: del self.cache[cache_key]; return None
GfcDel(t) ==
    /\ pc[t] = "gfc_del"
    /\ IF frame[t].cache_key \in DOMAIN cache
       THEN /\ cache' = Del(cache, frame[t].cache_key)
            /\ pc' = [pc EXCEPT ![t] = "baseline"]
            /\ ret' = ret
       ELSE /\ cache' = cache
            /\ pc' = [pc EXCEPT ![t] = "done"]
            /\ ret' = [ret EXCEPT ![t] = AIServiceError("KeyError")]
    /\ UNCHANGED <<now, args, frame, obs, storeTime, prev>>
    /\ UNCHANGED <<appVars, securityVars>>

\* baseline_prediction = self._get_baseline_prediction(...)
Baseline(t) ==
    /\ pc[t] = "baseline"
    /\ \E b \in _get_baseline_prediction(
                    args[t].crop_type, args[t].soil_data, args[t].weather_data) :
         frame' = [frame EXCEPT
                      ![t].baseline_prediction = b,
                      ![t].scores =
                          IF args[t].crop_type \in DOMAIN crop_data
                          THEN SuitabilityScores(args[t].crop_type,
                                   args[t].soil_data, args[t].weather_data)
                          ELSE None]
    /\ pc' = [pc EXCEPT ![t] = "advisory"]
    /\ UNCHANGED <<now, cache, args, ret, obs, storeTime, prev>>
    /\ UNCHANGED <<appVars, securityVars>>

\* ai_analysis = self._get_ai_crop_analysis(...): the service does one of
\* `outcomes`
Advisory(t, outcomes) ==
    /\ pc[t] = "advisory"
    /\ \E o \in outcomes :
         LET r == _get_ai_crop_analysis(o)
         IN  /\ frame' = [frame EXCEPT ![t].ai_analysis = r.analysis]
             /\ obs' = [obs EXCEPT ![t].called = TRUE, ![t].warned = r.warned,
                                   ![t].outcome = o]
    /\ pc' = [pc EXCEPT ![t] = "combine"]
    /\ UNCHANGED <<now, cache, args, ret, storeTime, prev>>
    /\ UNCHANGED <<appVars, securityVars>>

\* self.client.chat.completions.create(...) is called without a timeout and
\* the client is built without one: against a service that never replies the
\* code itself puts no end to the wait, the call neither returns nor raises.
AdvisoryNeverReturns(t) ==
    /\ pc[t] = "advisory"
    /\ pc' = [pc EXCEPT ![t] = "blocked"]
    /\ obs' = [obs EXCEPT ![t].called = TRUE]
    /\ UNCHANGED <<now, cache, args, frame, ret, storeTime, prev>>
    /\ UNCHANGED <<appVars, securityVars>>

\* result = self._combine_predictions(baseline_prediction, ai_analysis, farm_size)
Combine(t) ==
    /\ pc[t] = "combine"
    /\ \E r \in _combine_predictions(frame[t].baseline_prediction,
                    frame[t].ai_analysis, args[t].farm_size, now) :
         IF IsRaised(r)
         THEN /\ frame' = frame
              /\ pc' = [pc EXCEPT ![t] = "done"]
              /\ ret' = [ret EXCEPT ![t] = AIServiceError(r.raised)]
         ELSE /\ frame' = [frame EXCEPT ![t].result = r]
              /\ pc' = [pc EXCEPT ![t] = "store"]
              /\ ret' = ret
    /\ UNCHANGED <<now, cache, args, obs, storeTime, prev>>
    /\ UNCHANGED <<appVars, securityVars>>

\* self._cache_result(cache_key, result); return result
Store(t) ==
    /\ pc[t] = "store"
    /\ cache' = Put(cache, frame[t].cache_key, frame[t].result, now)
    /\ storeTime' = [k \in DOMAIN storeTime \cup {frame[t].cache_key} |->
                        IF k = frame[t].cache_key THEN now ELSE storeTime[k]]
    /\ pc' = [pc EXCEPT ![t] = "done"]
    /\ ret' = [ret EXCEPT ![t] = Returned(frame[t].result)]
    /\ UNCHANGED <<now, args, frame, obs, prev>>
    /\ UNCHANGED <<appVars, securityVars>>

\* Time passes.
Tick(points) ==
    /\ \E t2 \in points : t2 > now /\ now' = t2
    /\ UNCHANGED <<cache, pc, args, frame, ret, obs, storeTime, prev>>
    /\ UNCHANGED <<appVars, securityVars>>

----------------------------------------------------------------------------
(* Inputs *)

Crops == DOMAIN crop_data \cup {"dragonfruit"}

Location == "Nakuru"

\* replies of the advisory service
FullObject ==
    <<LB,
      Kv("ai_yield_prediction", Num(500)),
      Kv("risk_factors", List(<<"Drought">>)),
      Kv("recommendations", List(<<"Mulch">>)),
      Kv("planting_time", Str("March")),
      Kv("confidence", Num(800)),
      Kv("market_considerations", List(<<"Prices rising">>)),
      RB>>

GoodReply == Reply(FullObject)

\* a yield with two decimals and a confidence with one: 9.99 t/ha, 85.5
FineReply ==
    Reply(<<LB, Kv("ai_yield_prediction", Num(999)), Kv("confidence", Num(855)),
            Kv("risk_factors", List(<<"Pests">>)), RB>>)

ProseReply == Reply(<<Txt>> \o FullObject \o <<Txt>>)

NoJsonReply == Reply(<<Txt>>)

EmptyReply == Reply(<<>>)

TruncatedReply == Reply(<<LB, Kv("ai_yield_prediction", Num(500))>>)

TwoObjectsReply == Reply(FullObject \o <<Txt>> \o FullObject)

EmptyObjectReply == Reply(<<LB, RB>>)

StringYieldReply ==
    Reply(<<LB, Kv("ai_yield_prediction", Str("high")), Kv("confidence", Num(800)), RB>>)

NullConfidenceReply ==
    Reply(<<LB, Kv("ai_yield_prediction", Num(500)), Kv("confidence", [null |-> TRUE]), RB>>)

\* replies that lack one of the two numbers
NoConfidenceReply ==
    Reply(<<LB, Kv("ai_yield_prediction", Num(500)),
            Kv("planting_time", Str("March")), RB>>)

NoYieldReply ==
    Reply(<<LB, Kv("confidence", Num(800)),
            Kv("recommendations", List(<<"Mulch">>)), RB>>)

\* replies whose confidence is no percentage: 150.0 and -20.0
OverconfidentReply ==
    Reply(<<LB, Kv("ai_yield_prediction", Num(500)), Kv("confidence", Num(1500)), RB>>)

NegativeConfidenceReply ==
    Reply(<<LB, Kv("ai_yield_prediction", Num(500)), Kv("confidence", Num(-200)), RB>>)

CalcOutcomes ==
    {ServiceError, GoodReply, FineReply, ProseReply, NoJsonReply, EmptyReply,
     TruncatedReply, TwoObjectsReply, EmptyObjectReply, StringYieldReply,
     NullConfidenceReply, NoConfidenceReply, NoYieldReply, OverconfidentReply,
     NegativeConfidenceReply}

CalcPh == {-100, 350, 380, 400, 500, 550, 580, 590, 600, 620, 650, 700, 750, 800, 950, 1400}

CalcRain == {-50, 0, 250, 300, 400, 500, 600, 800, 1000, 1200, 1500, 2000, 2400, 5000}

CalcArgs ==
    [crop_type : Crops,
     location : {Location},
     soil_data : {[ph |-> p, type |-> "loam"] : p \in CalcPh} \cup {[type |-> "loam"]},
     weather_data : {[expected_rainfall |-> r] : r \in CalcRain} \cup {EmptyDict},
     farm_size : {10, 20, 25}]

SeqArgs ==
    [crop_type : {"maize", "dragonfruit"},
     location : {Location},
     soil_data : {[ph |-> 650, type |-> "loam"]},
     weather_data : {[expected_rainfall |-> 800]},
     farm_size : {10, 20}]

SeqOutcomes == {ServiceError, GoodReply, StringYieldReply}

\* the times at which something happens: T, T + TTL - 1, T + TTL, T + TTL + 1
\* for T = 0 and T = 1
TimePoints == {0, 1, cache_ttl - 1, cache_ttl, cache_ttl + 1}

ConcArgs ==
    [crop_type : {"maize"},
     location : {Location},
     soil_data : {[ph |-> 650, type |-> "loam"]},
     weather_data : {[expected_rainfall |-> 800]},
     farm_size : {10}]

ConcOutcomes == {ServiceError, GoodReply}

ConcTimePoints == {0, cache_ttl}

\* two calls that split "sweet_potato_Nakuru" differently into crop and
\* location
KeyArgs ==
    {[crop_type |-> "sweet_potato", location |-> "Nakuru",
      soil_data |-> [ph |-> 600, type |-> "loam"],
      weather_data |-> [expected_rainfall |-> 800], farm_size |-> 10],
     [crop_type |-> "sweet", location |-> "potato_Nakuru",
      soil_data |-> [ph |-> 600, type |-> "loam"],
      weather_data |-> [expected_rainfall |-> 800], farm_size |-> 10]}

KeyOutcomes == {ServiceError, GoodReply}

KeyTimePoints == {0, 1, cache_ttl}

\* observations for the two suitability scores: every pH from 3.00 to 10.00
\* in steps of 0.01 and every rainfall from 0 to MaxRain mm, with negative
\* and very large ones
MaxRain == 4100

ScorePh == 300..1000 \cup {-100, 0, 100000}

ScoreRain == 0..MaxRain \cup {-50, -1, 100000}

ScoreArgs ==
    [crop_type : DOMAIN crop_data,
     location : {Location},
     soil_data : {[ph |-> p, type |-> "loam"] : p \in ScorePh},
     weather_data : {[expected_rainfall |-> 800]},
     farm_size : {10}]
    \cup
    [crop_type : DOMAIN crop_data,
     location : {Location},
     soil_data : {[ph |-> 650, type |-> "loam"]},
     weather_data : {[expected_rainfall |-> r] : r \in ScoreRain},
     farm_size : {10}]

\* every reply text of up to MaxReplyLen tokens
MaxReplyLen == 4

ReplyTokens ==
    {LB, RB, Txt, Kv("confidence", Num(800)), Kv("confidence", Num(600)),
     Kv("ai_yield_prediction", Num(500))}

ParseOutcomes ==
    {Reply(text) : text \in UNION {[1..n -> ReplyTokens] : n \in 0..MaxReplyLen}}

ParseArgs ==
    [crop_type : {"maize", "dragonfruit"},
     location : {Location},
     soil_data : {[ph |-> 650, type |-> "loam"]},
     weather_data : {[expected_rainfall |-> 800]},
     farm_size : {10}]

----------------------------------------------------------------------------
(* NutritionAnalyzer._generate_cache_key *)

\* A user profile is None or a dict; a dict is its items in insertion order,
\* each a key with a number or a string.
Profile(items) == [items |-> items]

Item(k, v) == [k |-> k, v |-> v]

\* the profile keys in the order sorted() puts them
ProfileKeyOrder == <<"age", "gender">>

\* sorted(user_profile.items()): the keys of a dict are distinct, so the
\* tuples sort by key
SortedItems(items) ==
    LET has(k) == \E i \in 1..Len(items) : items[i].k = k
        keys == SelectSeq(ProfileKeyOrder, has)
    IN  [n \in 1..Len(keys) |->
            items[CHOOSE i \in 1..Len(items) : items[i].k = keys[n]]]

\* repr of a profile value
ProfileRepr(v) == IF IsNum(v) THEN ToString(v.num) ELSE "'" \o v.str \o "'"

RECURSIVE StrItemsFrom(_, _)
StrItemsFrom(items, i) ==
    IF i > Len(items) THEN ""
    ELSE (IF i = 1 THEN "" ELSE ", ")
            \o "('" \o items[i].k \o "', " \o ProfileRepr(items[i].v) \o ")"
            \o StrItemsFrom(items, i + 1)

\* str of a list of (key, value) tuples
StrItems(items) == "[" \o StrItemsFrom(items, 1) \o "]"

\* if user_profile: None and the empty dict are false
ProfileTruthy(user_profile) ==
    "items" \in DOMAIN user_profile /\ user_profile.items # <<>>

\* a slip: the items taken in the dict's own order, without sorted()
GenerateCacheKeyUnsorted(meal_description, user_profile) ==
    md5(IF ProfileTruthy(user_profile)
        THEN meal_description \o StrItems(user_profile.items)
        ELSE meal_description)

_generate_cache_key(meal_description, user_profile) ==
    md5(IF ProfileTruthy(user_profile)
        THEN meal_description \o StrItems(SortedItems(user_profile.items))
        ELSE meal_description)

MaxKeyCalls == 3

\* A caller derives the key of one (meal description, user profile).
GenerateCacheKey(meals, profiles) ==
    /\ Len(keyCalls) < MaxKeyCalls
    /\ \E m \in meals, p \in profiles :
         keyCalls' = Append(keyCalls,
             [meal_description |-> m, user_profile |-> p,
              key |-> _generate_cache_key(m, p)])
    /\ UNCHANGED <<now, estimatorVars, db, req, securityVars>>

Meals == {"chicken rice", "ugali"}

Profiles ==
    {None, Profile(<<>>),
     Profile(<<Item("age", Num(25))>>),
     Profile(<<Item("age", Num(30))>>),
     Profile(<<Item("age", Str("25"))>>),
     Profile(<<Item("gender", Str("f"))>>),
     Profile(<<Item("age", Num(25)), Item("gender", Str("f"))>>),
     Profile(<<Item("gender", Str("f")), Item("age", Num(25))>>),
     Profile(<<Item("age", Num(30)), Item("gender", Str("f"))>>),
     Profile(<<Item("gender", Str("m")), Item("age", Num(25))>>)}

----------------------------------------------------------------------------
(* app.py: the tables, register, token_required, predict_crop_yield *)

\* db.create_all() on an empty database
EmptyDb == [users |-> {}, crop_predictions |-> {}, donations |-> {}]

\* the primary key the database gives the next row of a table
NextId(rows) == Cardinality(rows) + 1

\* User.query.filter_by(username=...).first() and filter_by(email=...)
UsernameStored(users, username) == \E u \in users : u.username = username

EmailStored(users, email) == \E u \in users : u.email = email

\* a slip: the users table without its two unique constraints
NoUniqueConstraint(users, row) == FALSE

\* username and email are unique=True: the commit of a row that repeats one
\* of them raises IntegrityError
UniqueViolation(users, row) ==
    UsernameStored(users, row.username) \/ EmailStored(users, row.email)

\* jsonify({...}), status
Response(status, body) == [status |-> status, body |-> body]

\* a thread that serves no request
NoRequest ==
    [route |-> "", pc |-> "idle", data |-> EmptyDict, auth |-> None,
     current_user |-> None, prediction |-> None, gateway |-> None,
     payment_response |-> None, donation |-> None, resp |-> None,
     entered |-> FALSE, taken |-> FALSE, created |-> FALSE,
     called |-> FALSE, stored |-> FALSE]

NewRequest(route, data, auth, admitted) ==
    [NoRequest EXCEPT
        !.route = route, !.data = data, !.auth = auth,
        !.pc = IF admitted THEN route ELSE "done",
        !.resp = IF admitted THEN None ELSE Response(429, "Too Many Requests")]

Answer(r, status, body) ==
    [r EXCEPT !.pc = "done", !.resp = Response(status, body)]

HasAll(data, required_fields) == required_fields \subseteq DOMAIN data

\* A client posts to /api/register; the limiter admits the request or
\* answers 429 itself.
PostRegister(t, datas) ==
    /\ req[t].pc \in {"idle", "done"}
    /\ \E d \in datas, admitted \in BOOLEAN :
         req' = [req EXCEPT ![t] = NewRequest("register", d, None, admitted)]
    /\ UNCHANGED <<now, estimatorVars, keyCalls, db, securityVars>>

\* register: the required fields, then the query for the username
RegisterUsername(t) ==
    /\ req[t].pc = "register"
    /\ LET data == req[t].data
           \* history: the handler is entered, and whether the username is
           \* stored at this moment
           r == [req[t] EXCEPT
                    !.entered = TRUE,
                    !.taken = /\ "username" \in DOMAIN data
                              /\ \E u \in db.users : u.username = data.username]
       IN  req' = [req EXCEPT ![t] =
             IF ~HasAll(data, {"username", "email", "password", "user_type"})
             THEN Answer(r, 400, "Missing required fields")
             ELSE IF UsernameStored(db.users, data.username)
             THEN Answer(r, 400, "Username already exists")
             ELSE [r EXCEPT !.pc = "register_email"]]
    /\ UNCHANGED <<now, estimatorVars, keyCalls, db, securityVars>>

\* register: the query for the email
RegisterEmail(t) ==
    /\ req[t].pc = "register_email"
    /\ req' = [req EXCEPT ![t] =
          IF EmailStored(db.users, req[t].data.email)
          THEN Answer(req[t], 400, "Email already registered")
          ELSE [req[t] EXCEPT !.pc = "register_commit"]]
    /\ UNCHANGED <<now, estimatorVars, keyCalls, db, securityVars>>

\* register: db.session.add(user); db.session.commit(); the token and 201,
\* or the except clause: rollback and 500
RegisterCommit(t) ==
    /\ req[t].pc = "register_commit"
    /\ LET data == req[t].data
           user == [id |-> NextId(db.users), username |-> data.username,
                    email |-> data.email, user_type |-> data.user_type]
       IN  IF UniqueViolation(db.users, user)
           THEN /\ db' = db
                /\ req' = [req EXCEPT ![t] =
                      Answer(req[t], 500, "Registration failed")]
           ELSE /\ db' = [db EXCEPT !.users = @ \cup {user}]
                /\ req' = [req EXCEPT ![t] =
                      Answer([req[t] EXCEPT !.created = TRUE], 201,
                             "User registered successfully")]
    /\ UNCHANGED <<now, estimatorVars, keyCalls, securityVars>>

\* The Authorization header of a request: none, a text without a space, or
\* "Bearer " and a token that names a user, signed with the SECRET_KEY or
\* not, expired or not.
Bearer(user_id, signed, expired) ==
    [user_id |-> user_id, signed |-> signed, expired |-> expired]

NoHeader == None

GarbledHeader == [garbled |-> TRUE]

IsBearer(auth) == "user_id" \in DOMAIN auth

\* a slip: the token decoded without verifying its signature and expiry
DecodesUnverified(auth) == IsBearer(auth)

\* jwt.decode(token, SECRET_KEY, algorithms=['HS256']) returns the payload
DecodesOk(auth) == IsBearer(auth) /\ auth.signed /\ ~auth.expired

MaxPredictions == 2

\* A client posts to /api/crops/predict; the limiter admits the request or
\* answers 429 itself.
PostPredict(t, datas, auths) ==
    /\ req[t].pc \in {"idle", "done"}
    /\ Cardinality(db.crop_predictions) < MaxPredictions
    /\ \E d \in datas, a \in auths, admitted \in BOOLEAN :
         req' = [req EXCEPT ![t] = NewRequest("predict", d, a, admitted)]
    /\ UNCHANGED <<now, estimatorVars, keyCalls, db, securityVars>>

\* token_required
TokenRequired(t) ==
    /\ req[t].pc \in {"predict", "donate"}
    /\ LET r == [req[t] EXCEPT !.entered = TRUE]
           token == r.auth
           found == {u \in db.users : IsBearer(token) /\ u.id = token.user_id}
       IN  req' = [req EXCEPT ![t] =
             IF token = NoHeader
             THEN Answer(r, 401, "Token is missing")
             ELSE IF ~DecodesOk(token)
             THEN Answer(r, 401, "Token is invalid")
             ELSE IF found = {}
             THEN Answer(r, 401, "User not found")
             ELSE [r EXCEPT !.pc = IF r.route = "donate" THEN "donate_check"
                                    ELSE "predict_check",
                            !.current_user = CHOOSE u \in found : TRUE]]
    /\ UNCHANGED <<now, estimatorVars, keyCalls, db, securityVars>>

\* predict_crop_yield: the user type, then the required fields
PredictCheck(t) ==
    /\ req[t].pc = "predict_check"
    /\ req' = [req EXCEPT ![t] =
          IF req[t].current_user.user_type # "farmer"
          THEN Answer(req[t], 403, "Farmer access required")
          ELSE IF ~HasAll(req[t].data, {"crop_type", "location", "soil_data"})
          THEN Answer(req[t], 400, "Missing required fields")
          ELSE [req[t] EXCEPT !.pc = "predict_advisory"]]
    /\ UNCHANGED <<now, estimatorVars, keyCalls, db, securityVars>>

\* AIService.predict_crop_yield, given what the service did: the parsed
\* reply, or the error dict of its except clause
AppFailedPrediction == [error |-> Str("Prediction failed"), confidence |-> Num(0)]

AIServicePredictCropYield(outcome) ==
    IF outcome.kind = "reply" /\ JsonWellFormed(outcome.text)
    THEN JsonObject(outcome.text)
    ELSE AppFailedPrediction

\* predict_crop_yield: prediction = AIService.predict_crop_yield(...)
PredictAdvisory(t, outcomes) ==
    /\ req[t].pc = "predict_advisory"
    /\ \E o \in outcomes :
         req' = [req EXCEPT ![t].called = TRUE,
                            ![t].prediction = AIServicePredictCropYield(o),
                            ![t].pc = "predict_store"]
    /\ UNCHANGED <<now, estimatorVars, keyCalls, db, securityVars>>

\* prediction.get('confidence', 0) or 0
ConfidenceOrZero(prediction) ==
    LET c == Get(prediction, "confidence", Num(0))
    IN  IF c = [null |-> TRUE] \/ c = Num(0) \/ c = Str("") THEN Num(0) ELSE c

\* predict_crop_yield: the CropPrediction row, commit and 200, or the except
\* clause (a confidence that is no number cannot be divided): rollback, 500
PredictStore(t) ==
    /\ req[t].pc = "predict_store"
    /\ LET c == ConfidenceOrZero(req[t].prediction)
           row == [id |-> NextId(db.crop_predictions),
                   farmer_id |-> req[t].current_user.id,
                   crop_type |-> req[t].data.crop_type,
                   ai_prediction |-> req[t].prediction,
                   confidence_score |-> c]
       IN  IF ~IsNum(c)
           THEN /\ db' = db
                /\ req' = [req EXCEPT ![t] =
                      Answer(req[t], 500, "Prediction failed")]
           ELSE /\ db' = [db EXCEPT !.crop_predictions = @ \cup {row}]
                /\ req' = [req EXCEPT ![t] =
                      Answer([req[t] EXCEPT !.stored = TRUE], 200, "prediction")]
    /\ UNCHANGED <<now, estimatorVars, keyCalls, securityVars>>

\* requests
RegisterDatas ==
    {[username |-> "alice", email |-> "a@example.com",
      password |-> "password123", user_type |-> "farmer"],
     [username |-> "alice", email |-> "b@example.com",
      password |-> "password123", user_type |-> "donor"],
     [username |-> "bob", email |-> "a@example.com",
      password |-> "password123", user_type |-> "farmer"],
     [username |-> "bob", email |-> "b@example.com",
      password |-> "password123", user_type |-> "donor"],
     [username |-> "alice", email |-> "a@example.com", user_type |-> "farmer"]}

PredictDatas ==
    {[crop_type |-> "maize", location |-> Location, soil_data |-> [type |-> "clay"]],
     [crop_type |-> "maize", location |-> Location]}

\* the headers a client can send: tokens signed by the application name a
\* user it has stored
AuthHeaders ==
    {NoHeader, GarbledHeader, Bearer(1, FALSE, FALSE)}
    \cup {Bearer(u.id, TRUE, FALSE) : u \in db.users}
    \cup {Bearer(u.id, TRUE, TRUE) : u \in {x \in db.users : x.id = 1}}

\* what the advisory service of app.py does on one call
AppOutcomes ==
    {ServiceError,
     Reply(<<LB, Kv("yield_prediction", Str("5 tons/hectare")),
             Kv("confidence", Num(80)), RB>>),
     Reply(<<LB, Kv("confidence", Str("high")), RB>>)}

\* What the IntaSend gateway does on requests.post: it answers with a status
\* and a body, or it is unreachable (the post raises). A body is a JSON
\* object, another JSON value, or no JSON at all.
JsonBody(value) == [json |-> value]

NoJsonBody == [text |-> "<html>"]

Object(members) == [object |-> members]

GatewayAnswer(status_code, body) ==
    [kind |-> "response", status_code |-> status_code, body |-> body]

GatewayUnreachable == [kind |-> "unreachable"]

\* a slip: the body of an answer taken whatever its status
InitiatePaymentAnyStatus(amount, outcome) ==
    IF ~IsNum(amount) \/ outcome.kind = "unreachable"
           \/ "json" \notin DOMAIN outcome.body
    THEN Object([error |-> Str("Payment service unavailable")])
    ELSE outcome.body.json

\* PaymentService.initiate_payment: float(amount) and the post in a try; the
\* body of a 200, the error dict for another status, and the error dict of
\* the except clause for a ValueError, an unreachable gateway or a body that
\* response.json() cannot parse
initiate_payment(amount, outcome) ==
    IF ~IsNum(amount) \/ outcome.kind = "unreachable"
    THEN Object([error |-> Str("Payment service unavailable")])
    ELSE IF outcome.status_code = 200
    THEN IF "json" \in DOMAIN outcome.body
         THEN outcome.body.json
         ELSE Object([error |-> Str("Payment service unavailable")])
    ELSE Object([error |-> Str("Payment initiation failed")])

IsObject(value) == "object" \in DOMAIN value

MaxDonations == 2

\* A client posts to /api/donate; the limiter admits the request or answers
\* 429 itself.
PostDonate(t, datas, auths) ==
    /\ req[t].pc \in {"idle", "done"}
    /\ Cardinality(db.donations) < MaxDonations
    /\ \E d \in datas, a \in auths, admitted \in BOOLEAN :
         req' = [req EXCEPT ![t] = NewRequest("donate", d, a, admitted)]
    /\ UNCHANGED <<now, estimatorVars, keyCalls, db, securityVars>>

\* initiate_donation: the required fields
DonateCheck(t) ==
    /\ req[t].pc = "donate_check"
    /\ req' = [req EXCEPT ![t] =
          IF ~HasAll(req[t].data, {"amount", "phone_number", "purpose"})
          THEN Answer(req[t], 400, "Missing required fields")
          ELSE [req[t] EXCEPT !.pc = "donate_pay"]]
    /\ UNCHANGED <<now, estimatorVars, keyCalls, db, securityVars>>

\* initiate_donation: payment_response = PaymentService.initiate_payment(...)
DonatePay(t, outcomes) ==
    /\ req[t].pc = "donate_pay"
    /\ \E o \in outcomes :
         req' = [req EXCEPT ![t].called = TRUE,
                            ![t].gateway = o,
                            ![t].payment_response =
                                initiate_payment(req[t].data.amount, o),
                            ![t].pc = "donate_store"]
    /\ UNCHANGED <<now, estimatorVars, keyCalls, db, securityVars>>

\* initiate_donation: without 'error' in the payment response the Donation
\* row, commit and 200; with it 400; the except clause (a payment response
\* that is no dict has no 'error' key to read and no get): rollback, 500
DonateStore(t) ==
    /\ req[t].pc = "donate_store"
    /\ LET payment_response == req[t].payment_response
           donation == [id |-> NextId(db.donations),
                        donor_id |-> req[t].current_user.id,
                        amount |-> req[t].data.amount,
                        currency |-> Get(req[t].data, "currency", Str("KES")),
                        purpose |-> req[t].data.purpose,
                        status |-> "pending",
                        transaction_id |->
                            IF IsObject(payment_response)
                            THEN Get(payment_response.object, "id", None)
                            ELSE None]
       IN  IF ~IsObject(payment_response)
           THEN /\ db' = db
                /\ req' = [req EXCEPT ![t] =
                      Answer(req[t], 500, "Donation failed")]
           ELSE IF "error" \notin DOMAIN payment_response.object
           THEN /\ db' = [db EXCEPT !.donations = @ \cup {donation}]
                /\ req' = [req EXCEPT ![t] =
                      Answer([req[t] EXCEPT !.stored = TRUE,
                                            !.donation = donation],
                             200, "Donation initiated successfully")]
           ELSE /\ db' = db
                /\ req' = [req EXCEPT ![t] =
                      Answer(req[t], 400, payment_response.object.error.str)]
    /\ UNCHANGED <<now, estimatorVars, keyCalls, securityVars>>

DonateDatas ==
    {[amount |-> Num(1000), phone_number |-> Str("254712345678"),
      purpose |-> Str("Support farmers")],
     [amount |-> Num(500), phone_number |-> Str("254712345678"),
      purpose |-> Str("Seeds"), currency |-> Str("USD")],
     [amount |-> Str("a lot"), phone_number |-> Str("254712345678"),
      purpose |-> Str("Support farmers")],
     [amount |-> Num(1000), phone_number |-> Str("254712345678")]}

DonateAuths == {NoHeader, Bearer(1, TRUE, FALSE), Bearer(2, TRUE, FALSE)}

GatewayOutcomes ==
    {GatewayAnswer(200, JsonBody(Object(
         [id |-> Str("tx-1"), payment_url |-> Str("https://pay.example/1")]))),
     GatewayAnswer(200, JsonBody(Object(
         [id |-> Str("tx-2"), payment_url |-> Str("https://pay.example/2")]))),
     GatewayAnswer(200, JsonBody(Object(EmptyDict))),
     GatewayAnswer(200, JsonBody(Object([error |-> Str("Declined")]))),
     GatewayAnswer(200, JsonBody(List(<<>>))),
     GatewayAnswer(200, NoJsonBody),
     GatewayAnswer(400, JsonBody(Object([detail |-> Str("Invalid phone")]))),
     GatewayAnswer(503, NoJsonBody),
     GatewayUnreachable}

\* a donor is registered; nothing else has happened
Donor ==
    [id |-> 1, username |-> "dora", email |-> "d@example.com",
     user_type |-> "donor"]

\* no key derived, an empty database, no request
AppIdle ==
    /\ keyCalls = <<>>
    /\ db = EmptyDb
    /\ req = [t \in Threads |-> NoRequest]

----------------------------------------------------------------------------
(* security.py: TokenManager, require_auth, RateLimiter, rate_limit *)

\* A JWT: the user_id and the jti of its payload, and whether jwt.decode
\* accepts it (signed with the SECRET_KEY and not expired).
Jwt(user_id, jti, good) == [user_id |-> user_id, jti |-> jti, good |-> good]

\* the Authorization header "Bearer <token>"
AuthBearer(token) == [bearer |-> token]

\* TokenManager.verify_token: the payload, or None
verify_token(token) ==
    IF token.good THEN [user_id |-> token.user_id, jti |-> token.jti] ELSE None

\* flask.g is a namespace of the application context, which Flask pushes
\* when a request begins and pops when it ends: attribute name -> value
SetAttr(obj, name, value) ==
    [a \in DOMAIN obj \cup {name} |-> IF a = name THEN value ELSE obj[a]]

\* TokenManager.revoke_token: g after the call
revoke_token(obj, jti) ==
    SetAttr(obj, "revoked_tokens", Get(obj, "revoked_tokens", {}) \cup {jti})

\* TokenManager.is_token_revoked
is_token_revoked(obj, jti) == jti \in Get(obj, "revoked_tokens", {})

\* A Redis client, connected or not; RateLimiter() has None in its place.
RedisClient(up) == [up |-> up]

\* the sorted set stored at a key: its members with their scores, none once
\* the key has expired
StoredSet(store, key, time) ==
    IF key \in DOMAIN store /\ time < store[key].expire_at
    THEN store[key].zset
    ELSE {}

\* ZREMRANGEBYSCORE key min max
ZRemRangeByScore(zset, min, max) ==
    {m \in zset : ~(min <= m.score /\ m.score <= max)}

\* ZADD key score member: a member the set has gets the new score
ZAdd(zset, member, score) ==
    {m \in zset : m.member # member} \cup {[member |-> member, score |-> score]}

\* RateLimiter.is_rate_limited: the answer and the store after the call
is_rate_limited(redis_client, store, key, limit, window, current_time) ==
    IF redis_client = None
    THEN [limited |-> FALSE, store |-> store]
    ELSE IF ~redis_client.up
    THEN \* except Exception: logger.error, return False
         [limited |-> FALSE, store |-> store]
    ELSE LET trimmed == ZRemRangeByScore(StoredSet(store, key, current_time),
                                         0, current_time - window)
             request_count == Cardinality(trimmed)
             added == ZAdd(trimmed, ToString(current_time), current_time)
             entry == [zset |-> added, expire_at |-> current_time + window]
         IN  [limited |-> request_count >= limit,
              store |-> [k \in DOMAIN store \cup {key} |->
                            IF k = key THEN entry ELSE store[k]]]

\* the text of a value in an f-string
Text(v) == IF IsNum(v) THEN ToString(v.num) ELSE v.str

\* RateLimiter.get_rate_limit_key
get_rate_limit_key(identifier, endpoint) ==
    LET base_key == "rate_limit:" \o Text(identifier)
    IN  IF endpoint # "" THEN base_key \o ":" \o endpoint ELSE base_key

\* Handlers under the decorators: logout under require_auth calls
\* TokenManager.revoke_token for the token it was called with, report is
\* under require_auth and rate_limit, ping under rate_limit alone.
Routes == {"logout", "report", "ping"}

FirstDecorator(route) == IF route = "ping" THEN "rate_limit" ELSE "require_auth"

AfterRequireAuth(route) == IF route = "report" THEN "rate_limit" ELSE "handler"

\* rate_limit(requests_per_hour=...) of the handlers
requests_per_hour == 2

MaxRequests == 3

\* a thread that serves no request
NoSecurityRequest ==
    [pc |-> "idle", route |-> "", auth |-> None, remote_addr |-> "",
     payload |-> None, resp |-> None, ran |-> FALSE,
     revoked0 |-> {}, earlier |-> 0]

SecurityAnswer(r, status, body) ==
    [r EXCEPT !.pc = "teardown", !.resp = Response(status, body)]

\* A request for a decorated handler arrives: Flask pushes a new application
\* context, and with it a new g.
SecurityRequest(t, auths, addrs) ==
    /\ sreq[t].pc \in {"idle", "done"}
    /\ Len(hist.requests) < MaxRequests
    /\ \E route \in Routes, auth \in auths, addr \in addrs :
         sreq' = [sreq EXCEPT ![t] =
            [NoSecurityRequest EXCEPT
                !.pc = FirstDecorator(route), !.route = route, !.auth = auth,
                !.remote_addr = addr, !.revoked0 = hist.revoked]]
    /\ g' = [g EXCEPT ![t] = EmptyDict]
    /\ UNCHANGED <<now, estimatorVars, appVars, redis, hist>>

\* require_auth
RequireAuth(t) ==
    /\ sreq[t].pc = "require_auth"
    /\ LET r == sreq[t]
           token == r.auth
           payload == IF "bearer" \in DOMAIN token
                      THEN verify_token(token.bearer) ELSE None
       IN  IF token = NoHeader
           THEN /\ sreq' = [sreq EXCEPT ![t] =
                      SecurityAnswer(r, 401, "Authentication required")]
                /\ g' = g
           ELSE IF token = GarbledHeader
           THEN /\ sreq' = [sreq EXCEPT ![t] =
                      SecurityAnswer(r, 401, "Invalid token format")]
                /\ g' = g
           ELSE IF payload = None
           THEN /\ sreq' = [sreq EXCEPT ![t] =
                      SecurityAnswer(r, 401, "Invalid or expired token")]
                /\ g' = g
           ELSE IF is_token_revoked(g[t], payload.jti)
           THEN /\ sreq' = [sreq EXCEPT ![t] =
                      SecurityAnswer(r, 401, "Token has been revoked")]
                /\ g' = g
           ELSE /\ sreq' = [sreq EXCEPT ![t] =
                      [r EXCEPT !.pc = AfterRequireAuth(r.route),
                                !.payload = payload]]
                /\ g' = [g EXCEPT ![t] =
                      SetAttr(@, "current_user_id", Num(payload.user_id))]
    /\ UNCHANGED <<now, estimatorVars, appVars, redis, hist>>

\* the requests of one caller for one handler that came in the window
\* before `time`
Earlier(requests, key, time, window) ==
    Cardinality({i \in 1..Len(requests) :
        requests[i].key = key /\ requests[i].time > time - window})

\* rate_limit: limiter = RateLimiter(), without a Redis client
RateLimit(t) ==
    /\ sreq[t].pc = "rate_limit"
    /\ LET r == sreq[t]
           user_id == Get(g[t], "current_user_id", Str(r.remote_addr))
           key == get_rate_limit_key(user_id, r.route)
           answer == is_rate_limited(None, redis, key, requests_per_hour,
                                     3600, now)
           counted == [r EXCEPT !.earlier =
                          Earlier(hist.requests, key, now, 3600)]
       IN  /\ redis' = answer.store
           /\ hist' = [hist EXCEPT !.requests =
                          Append(@, [key |-> key, time |-> now])]
           /\ sreq' = [sreq EXCEPT ![t] =
                 IF answer.limited
                 THEN SecurityAnswer(counted, 429, "Rate limit exceeded")
                 ELSE [counted EXCEPT !.pc = "handler"]]
    /\ UNCHANGED <<now, estimatorVars, appVars, g>>

\* The handler runs; logout revokes the token of its request.
Handler(t) ==
    /\ sreq[t].pc = "handler"
    /\ sreq' = [sreq EXCEPT ![t] =
          SecurityAnswer([sreq[t] EXCEPT !.ran = TRUE], 200, "ok")]
    /\ IF sreq[t].route = "logout"
       THEN /\ g' = [g EXCEPT ![t] = revoke_token(@, sreq[t].payload.jti)]
            /\ hist' = [hist EXCEPT !.revoked = @ \cup {sreq[t].payload.jti}]
       ELSE /\ g' = g
            /\ hist' = hist
    /\ UNCHANGED <<now, estimatorVars, appVars, redis>>

\* The response goes out and Flask pops the application context: its g is
\* gone.
Teardown(t) ==
    /\ sreq[t].pc = "teardown"
    /\ sreq' = [sreq EXCEPT ![t].pc = "done"]
    /\ g' = [g EXCEPT ![t] = EmptyDict]
    /\ UNCHANGED <<now, estimatorVars, appVars, redis, hist>>

\* limit and window of the calls of RateLimiter.is_rate_limited
CallLimit == 2

CallWindow == 3600

MaxCalls == 4

\* A call of is_rate_limited on a RateLimiter that has a Redis client, which
\* answers or fails.
IsRateLimited(keys) ==
    /\ Len(hist.calls) < MaxCalls
    /\ \E key \in keys, up \in BOOLEAN :
         LET answer == is_rate_limited(RedisClient(up), redis, key,
                                       CallLimit, CallWindow, now)
         IN  /\ redis' = answer.store
             /\ hist' = [hist EXCEPT !.calls =
                   Append(@, [key |-> key, time |-> now,
                              limited |-> answer.limited, failed |-> ~up])]
    /\ UNCHANGED <<now, estimatorVars, appVars, g, sreq>>

SecurityAuths ==
    {NoHeader, GarbledHeader,
     AuthBearer(Jwt(1, "jti-1", TRUE)),
     AuthBearer(Jwt(1, "jti-2", FALSE))}

RemoteAddrs == {"10.0.0.1"}

SecurityTimePoints == {0, 3600}

LimiterKeys == {"rate_limit:1:report", "rate_limit:10.0.0.1:ping"}

WindowTimePoints == {0, 1, CallWindow - 1, CallWindow, CallWindow + 1}

SecurityIdle ==
    /\ g = [t \in Threads |-> EmptyDict]
    /\ sreq = [t \in Threads |-> NoSecurityRequest]
    /\ redis = EmptyDict
    /\ hist = [revoked |-> {}, requests |-> <<>>, calls |-> <<>>]

----------------------------------------------------------------------------
(* Specifications *)

Idle ==
    /\ now = 0
    /\ cache = EmptyDict
    /\ pc = [t \in Threads |-> "idle"]
    /\ args = [t \in Threads |-> None]
    /\ frame = [t \in Threads |-> FreshFrame("")]
    /\ ret = [t \in Threads |-> None]
    /\ obs = [t \in Threads |-> FreshObs(EmptyDict)]
    /\ storeTime = EmptyDict
    /\ prev = None
    /\ AppIdle
    /\ SecurityIdle

\* One caller, one call after the other, while time passes.
Init == Idle

Next ==
    \/ Tick(TimePoints)
    \/ Call(1, SeqArgs)
    \/ GfcTest(1)
    \/ GfcRead(1)
    \/ GfcCmp(1)
    \/ GfcDel(1)
    \/ Baseline(1)
    \/ Advisory(1, SeqOutcomes)
    \/ Combine(1)
    \/ Store(1)

Spec == Init /\ [][Next]_vars

\* One call on a fresh CropPredictor, over the wide input sets.
InitCalc ==
    /\ now = 0
    /\ cache = EmptyDict
    /\ \E a \in CalcArgs :
         /\ args = [t \in Threads |-> IF t = 1 THEN a ELSE None]
         /\ frame = [t \in Threads |->
                IF t = 1
                THEN FreshFrame(_generate_prediction_cache_key(
                         a.crop_type, a.location, a.soil_data, a.weather_data))
                ELSE FreshFrame("")]
    /\ pc = [t \in Threads |-> IF t = 1 THEN "gfc_test" ELSE "idle"]
    /\ ret = [t \in Threads |-> None]
    /\ obs = [t \in Threads |-> FreshObs(EmptyDict)]
    /\ storeTime = EmptyDict
    /\ prev = None
    /\ AppIdle
    /\ SecurityIdle

NextCalc ==
    \/ GfcTest(1)
    \/ Baseline(1)
    \/ Advisory(1, CalcOutcomes)
    \/ Combine(1)
    \/ Store(1)

SpecCalc == InitCalc /\ [][NextCalc]_vars

\* Request threads calling predict_yield on one CropPredictor at once.
NextConc ==
    \/ Tick(ConcTimePoints)
    \/ \E t \in Threads :
         \/ Call(t, ConcArgs)
         \/ GfcTest(t)
         \/ GfcRead(t)
         \/ GfcCmp(t)
         \/ GfcDel(t)
         \/ Baseline(t)
         \/ Advisory(t, ConcOutcomes)
         \/ Combine(t)
         \/ Store(t)

SpecConc == Init /\ [][NextConc]_vars

\* Request threads that each call predict_yield once on a fresh
\* CropPredictor, at once or one after the other.
FirstCall(t, argset) == pc[t] = "idle" /\ Call(t, argset)

NextRace ==
    \/ Tick(ConcTimePoints)
    \/ \E t \in Threads :
         \/ FirstCall(t, ConcArgs)
         \/ GfcTest(t)
         \/ GfcRead(t)
         \/ GfcCmp(t)
         \/ GfcDel(t)
         \/ Baseline(t)
         \/ Advisory(t, ConcOutcomes)
         \/ Combine(t)
         \/ Store(t)

SpecRace == Init /\ [][NextRace]_vars

\* Callers deriving NutritionAnalyzer cache keys.
NextNutritionKey == GenerateCacheKey(Meals, Profiles)

SpecNutritionKey == Init /\ [][NextNutritionKey]_vars

\* Request threads of the Flask application serving /api/register and
\* /api/crops/predict at once.
NextApp ==
    \E t \in Threads :
        \/ PostRegister(t, RegisterDatas)
        \/ RegisterUsername(t)
        \/ RegisterEmail(t)
        \/ RegisterCommit(t)
        \/ PostPredict(t, PredictDatas, AuthHeaders)
        \/ TokenRequired(t)
        \/ PredictCheck(t)
        \/ PredictAdvisory(t, AppOutcomes)
        \/ PredictStore(t)

SpecApp == Init /\ [][NextApp]_vars

\* One caller whose crop and location names hold the separator of the key.
NextKeys ==
    \/ Tick(KeyTimePoints)
    \/ Call(1, KeyArgs)
    \/ GfcTest(1)
    \/ GfcRead(1)
    \/ GfcCmp(1)
    \/ GfcDel(1)
    \/ Baseline(1)
    \/ Advisory(1, KeyOutcomes)
    \/ Combine(1)
    \/ Store(1)

SpecKeys == Init /\ [][NextKeys]_vars

\* One call on a fresh CropPredictor, the advisory service replying any
\* short text.
InitParse ==
    /\ InitCalc
    /\ args[1] \in ParseArgs

NextParse ==
    \/ GfcTest(1)
    \/ Baseline(1)
    \/ Advisory(1, ParseOutcomes)
    \/ Combine(1)
    \/ Store(1)

SpecParse == InitParse /\ [][NextParse]_vars

\* One call on a fresh CropPredictor up to its baseline, over dense
\* observations.
InitScores ==
    /\ now = 0
    /\ cache = EmptyDict
    /\ \E a \in ScoreArgs :
         /\ args = [t \in Threads |-> IF t = 1 THEN a ELSE None]
         /\ frame = [t \in Threads |->
                IF t = 1
                THEN FreshFrame(_generate_prediction_cache_key(
                         a.crop_type, a.location, a.soil_data, a.weather_data))
                ELSE FreshFrame("")]
    /\ pc = [t \in Threads |-> IF t = 1 THEN "gfc_test" ELSE "idle"]
    /\ ret = [t \in Threads |-> None]
    /\ obs = [t \in Threads |-> FreshObs(EmptyDict)]
    /\ storeTime = EmptyDict
    /\ prev = None
    /\ AppIdle
    /\ SecurityIdle

NextScores ==
    \/ GfcTest(1)
    \/ Baseline(1)

SpecScores == InitScores /\ [][NextScores]_vars

\* One call on a fresh CropPredictor against a service that may reply, fail
\* or stay silent; the calling thread runs whenever it can.
InitWait == InitCalc /\ args[1] \in SeqArgs

NextWait ==
    \/ GfcTest(1)
    \/ Baseline(1)
    \/ Advisory(1, CalcOutcomes)
    \/ AdvisoryNeverReturns(1)
    \/ Combine(1)
    \/ Store(1)

SpecWait == InitWait /\ [][NextWait]_vars /\ WF_vars(NextWait)

\* Request threads serving requests for the decorated handlers, while time
\* passes.
NextSecurity ==
    \/ Tick(SecurityTimePoints)
    \/ \E t \in Threads :
          \/ SecurityRequest(t, SecurityAuths, RemoteAddrs)
          \/ RequireAuth(t)
          \/ RateLimit(t)
          \/ Handler(t)
          \/ Teardown(t)

SpecSecurity == Init /\ [][NextSecurity]_vars

\* Calls of is_rate_limited on one RateLimiter with a Redis client, while
\* time passes.
NextLimiter ==
    \/ Tick(WindowTimePoints)
    \/ IsRateLimited(LimiterKeys)

SpecLimiter == Init /\ [][NextLimiter]_vars

\* Request threads serving POST /api/donate for a registered donor.
InitDonate ==
    /\ now = 0
    /\ cache = EmptyDict
    /\ pc = [t \in Threads |-> "idle"]
    /\ args = [t \in Threads |-> None]
    /\ frame = [t \in Threads |-> FreshFrame("")]
    /\ ret = [t \in Threads |-> None]
    /\ obs = [t \in Threads |-> FreshObs(EmptyDict)]
    /\ storeTime = EmptyDict
    /\ prev = None
    /\ keyCalls = <<>>
    /\ db = [EmptyDb EXCEPT !.users = {Donor}]
    /\ req = [t \in Threads |-> NoRequest]
    /\ SecurityIdle

NextDonate ==
    \E t \in Threads :
        \/ PostDonate(t, DonateDatas, DonateAuths)
        \/ TokenRequired(t)
        \/ DonateCheck(t)
        \/ DonatePay(t, GatewayOutcomes)
        \/ DonateStore(t)

SpecDonate == InitDonate /\ [][NextDonate]_vars

----------------------------------------------------------------------------
(* Properties *)

Done(t) == pc[t] = "done"

\* the call gave its caller a result / raised to its caller
ReturnedResult(t) == Done(t) /\ "value" \in DOMAIN ret[t]

RaisedToCaller(t) == Done(t) /\ "raised" \in DOMAIN ret[t]

\* the call went to the advisory service (it was no cache hit)
Computed(t) == obs[t].called

\* the JSON object a reply text holds between its first "{" and last "}"
ReplySpan(text) == PySlice(text, Find(text, "{"), RFind(text, "}") + 1)

\* The fallback advisory stands in: the service failed, or its reply holds no
\* JSON object.
Unavailable(o) ==
    \/ o.kind = "error"
    \/ o.kind = "reply" /\ ~JsonWellFormed(ReplySpan(o.text))

\* the members of a reply, as the service wrote them
Members(o) == {i \in 1..Len(o.text) : o.text[i].c = "kv"}

Says(o, k) == \E i \in Members(o) : o.text[i].k = k

Said(o, k) ==
    o.text[CHOOSE i \in Members(o) :
              /\ o.text[i].k = k
              /\ \A j \in Members(o) : o.text[j].k = k => j <= i].v

NumberFields == {"ai_yield_prediction", "confidence"}

ListFields == {"risk_factors", "recommendations", "market_considerations"}

\* A reply that parses, with a field missing or of the wrong type.
BadFields(o) ==
    /\ o.kind = "reply"
    /\ JsonWellFormed(ReplySpan(o.text))
    /\ \/ \E k \in NumberFields : ~Says(o, k) \/ DOMAIN Said(o, k) # {"num"}
       \/ \E k \in ListFields : ~Says(o, k) \/ DOMAIN Said(o, k) # {"list"}
       \/ ~Says(o, "planting_time") \/ DOMAIN Said(o, "planting_time") # {"str"}

ResultFields ==
    {"yield_per_hectare", "total_production_tons", "confidence_score",
     "farm_size_hectares", "risk_factors", "recommendations", "planting_time",
     "market_considerations", "baseline_analysis", "prediction_date"}

\* C1: under every expected advisory failure (the service raises, the reply
\* is malformed or holds no JSON object, or its fields are missing or of the
\* wrong type) predict_yield returns a complete result and raises nothing.
C1_NeverRaises ==
    \A t \in Threads :
        (Done(t) /\ Computed(t)
            /\ (Unavailable(obs[t].outcome) \/ BadFields(obs[t].outcome)))
        => /\ ReturnedResult(t)
           /\ DOMAIN ret[t].value = ResultFields

\* C1 holds of the failures the code absorbs: service error and a reply
\* without a JSON object.
C1_Absorbed ==
    \E t \in Threads :
        /\ ReturnedResult(t)
        /\ Computed(t)
        /\ obs[t].outcome.kind = "reply"
        /\ Unavailable(obs[t].outcome)

FallbackRiskFactors == List(<<"Weather uncertainty", "Soil conditions">>)

\* C2: whenever the advisory call fails, the result has exactly the two
\* fallback risk factors and its yield per hectare is the baseline yield.
C2_FallbackKeepsBaseline ==
    \A t \in Threads :
        (ReturnedResult(t) /\ Computed(t) /\ Unavailable(obs[t].outcome))
        => /\ ret[t].value.risk_factors = FallbackRiskFactors
           /\ ret[t].value.yield_per_hectare =
                  ret[t].value.baseline_analysis.predicted_yield_tons_per_hectare

MaizeExample(t) ==
    /\ args[t] # None
    /\ args[t].crop_type = "maize"
    /\ Get(args[t].soil_data, "ph", 0) = 650
    /\ Get(args[t].weather_data, "expected_rainfall", 0) = 800
    /\ args[t].farm_size = 20

\* C3: maize at pH 6.5, 800 mm, 2.0 ha with the advisory unavailable: baseline
\* 8.0 t/ha at confidence 100.0, final 8.0 t/ha, confidence 75.0, 16.0 tons.
C3_MaizeExample ==
    \A t \in Threads :
        (ReturnedResult(t) /\ Computed(t) /\ MaizeExample(t)
            /\ Unavailable(obs[t].outcome))
        => /\ ret[t].value.baseline_analysis.predicted_yield_tons_per_hectare = 800
           /\ ret[t].value.baseline_analysis.confidence = 1000
           /\ ret[t].value.yield_per_hectare = 800
           /\ ret[t].value.confidence_score = 750
           /\ ret[t].value.total_production_tons = 1600

\* the call before this one returned a result for the same cache key, that
\* is for the same (crop, location, soil, weather)
RepeatsPrev(t) ==
    /\ pc[t] # "idle"
    /\ prev # None
    /\ "value" \in DOMAIN prev.ret
    /\ prev.cache_key = frame[t].cache_key
    /\ prev.args.crop_type = args[t].crop_type
    /\ prev.args.location = args[t].location
    /\ prev.args.soil_data = args[t].soil_data
    /\ prev.args.weather_data = args[t].weather_data

\* C4: a call that repeats the inputs of the call before it finds that call's
\* result in the cache, and when it completes within the entry's TTL window
\* it returns that same result as a cache hit: no advisory call, no
\* recomputation, the cache as it was.
C4_Idempotent ==
    \A t \in Threads :
        RepeatsPrev(t) =>
            /\ frame[t].cache_key \in DOMAIN obs[t].cache0
            /\ obs[t].cache0[frame[t].cache_key].result = prev.ret.value
            /\ (Done(t) /\ now - obs[t].cache0[frame[t].cache_key].timestamp < 7200)
               => /\ ReturnedResult(t)
                  /\ ret[t].value = prev.ret.value
                  /\ obs[t].hit
                  /\ ~obs[t].called
                  /\ frame[t].baseline_prediction = None
                  /\ frame[t].result = None
                  /\ cache = obs[t].cache0

C4_SecondCallHits ==
    \E t \in Threads :
        /\ RepeatsPrev(t)
        /\ prev.args = args[t]
        /\ ReturnedResult(t)
        /\ obs[t].hit
        /\ now > 0

\* the entry the lookup of call t found, and its age when the lookup compared
Found(t) == obs[t].cache0[frame[t].cache_key]

Age(t) == obs[t].cmpTime - Found(t).timestamp

Looked(t) == obs[t].found /\ obs[t].cmpTime >= 0

\* C5: with TTL = 7200 s, a lookup at age t - T < 7200 of the entry stored at
\* T is a hit that returns the entry, and at age >= 7200 it is a miss that
\* recomputes; an entry's timestamp stays the time it was stored, whatever
\* hits it served.
C5_Expiry ==
    /\ \A k \in DOMAIN cache :
          k \in DOMAIN storeTime /\ cache[k].timestamp = storeTime[k]
    /\ \A t \in Threads :
          /\ (obs[t].found /\ pc[t] \notin {"gfc_read", "gfc_cmp"}) => Looked(t)
          /\ (Looked(t) /\ Age(t) < 7200)
             => /\ obs[t].hit
                /\ ReturnedResult(t)
                /\ ret[t].value = Found(t).result
                /\ ~obs[t].called
          /\ (Looked(t) /\ Age(t) >= 7200)
             => /\ ~obs[t].hit
                /\ pc[t] # "gfc_cmp"
                /\ Done(t) => obs[t].called
                /\ ReturnedResult(t)
                   => /\ ret[t].value = frame[t].result
                      /\ ret[t].value.prediction_date >= obs[t].cmpTime

\* a miss at age TTL + 1 of an entry that served a hit to the call before
C5_MissAfterHits ==
    \E t \in Threads :
        /\ ReturnedResult(t)
        /\ Looked(t)
        /\ Age(t) = 7201
        /\ ~obs[t].hit
        /\ prev # None
        /\ prev.hit
        /\ prev.cache_key = frame[t].cache_key

\* a hit at age TTL - 1
C5_HitAtLastSecond ==
    \E t \in Threads : ReturnedResult(t) /\ Looked(t) /\ Age(t) = 7199 /\ obs[t].hit

\* C6: the total production of every result predict_yield returns, cached or
\* not, is its yield per hectare times the farm size of the call (to the
\* hundredth of a ton the result reports).
C6_TotalProduction ==
    \A t \in Threads :
        ReturnedResult(t) =>
            ret[t].value.total_production_tons
                \in Round(ret[t].value.yield_per_hectare * args[t].farm_size, 10)

\* C7: under every interleaving of concurrent calls for one cache key no
\* call fails: each returns a result, the live cached one or one it computed.
C7_NoCallFails ==
    \A t \in Threads :
        Done(t) =>
            /\ ReturnedResult(t)
            /\ \/ obs[t].hit /\ ret[t].value = frame[t].entry.result
               \/ obs[t].called /\ ret[t].value = frame[t].result

\* C7 holds of the calls that do not race: a hit and a computation
C7_BothReturn ==
    /\ \A t \in Threads : ReturnedResult(t)
    /\ \E t \in Threads : obs[t].hit
    /\ \E t \in Threads : obs[t].called

UnknownCrop(t) == args[t] # None /\ args[t].crop_type \notin DOMAIN crop_data

\* C8: for a crop that is not in the reference table the baseline is the
\* generic one (2.0 t/ha, confidence 30.0, both suitabilities 50, 120 days)
\* whatever the soil and weather, and the call does not fail for it.
C8_UnknownCrop ==
    \A t \in Threads :
        UnknownCrop(t) =>
            /\ pc[t] \in {"advisory", "combine", "store", "done"}
               => frame[t].baseline_prediction =
                      [predicted_yield_tons_per_hectare |-> 200,
                       confidence |-> 300,
                       ph_suitability |-> 500,
                       rainfall_suitability |-> 500,
                       growing_season_days |-> 120]
            /\ ReturnedResult(t)
               => ret[t].value.baseline_analysis.predicted_yield_tons_per_hectare = 200
                  /\ ret[t].value.baseline_analysis.confidence = 300
            /\ (Done(t) /\ ~BadFields(obs[t].outcome)) => ReturnedResult(t)

\* an unknown crop at a pH and rainfall far from any optimum
C8_Dragonfruit ==
    \E t \in Threads :
        /\ UnknownCrop(t)
        /\ ReturnedResult(t)
        /\ Get(args[t].soil_data, "ph", 650) = 1400
        /\ Get(args[t].weather_data, "expected_rainfall", 800) = 0

\* The advisory call succeeded with a yield and a confidence.
Advised(t) ==
    /\ Computed(t)
    /\ obs[t].outcome.kind = "reply"
    /\ JsonWellFormed(ReplySpan(obs[t].outcome.text))
    /\ \A k \in NumberFields :
          Says(obs[t].outcome, k) /\ DOMAIN Said(obs[t].outcome, k) = {"num"}

\* the text fields of the result that the reply gives
AdvisedTexts(t) ==
    \A k \in ListFields \cup {"planting_time"} :
        Says(obs[t].outcome, k) => ret[t].value[k] = Said(obs[t].outcome, k)

Abs(x) == IF x < 0 THEN -x ELSE x

\* C9 as stated: the final yield is 0.7 * baseline + 0.3 * a and the final
\* confidence the mean of the two confidences, as exact values.
C9_ExactBlend ==
    \A t \in Threads :
        (ReturnedResult(t) /\ Advised(t)) =>
            LET r == ret[t].value
                b == r.baseline_analysis
                a == Said(obs[t].outcome, "ai_yield_prediction").num
                c == Said(obs[t].outcome, "confidence").num
            IN  \* in thousandths of a ton, and in twentieths of a percent
                /\ 10 * r.yield_per_hectare
                       = 7 * b.predicted_yield_tons_per_hectare + 3 * a
                /\ 2 * r.confidence_score = b.confidence + c
                /\ AdvisedTexts(t)
                /\ b = frame[t].baseline_prediction

\* C9, amended: the final yield is 0.7 * baseline + 0.3 * a rounded to the
\* hundredth of a ton and the final confidence the mean of the two
\* confidences rounded to the tenth; the text fields are the advisory's and
\* the baseline is kept.
C9_RoundedBlend ==
    \A t \in Threads :
        (ReturnedResult(t) /\ Advised(t)) =>
            LET r == ret[t].value
                b == r.baseline_analysis
                a == Said(obs[t].outcome, "ai_yield_prediction").num
                c == Said(obs[t].outcome, "confidence").num
            IN  \* within half a hundredth, and within half a tenth
                /\ Abs(10 * r.yield_per_hectare
                       - (7 * b.predicted_yield_tons_per_hectare + 3 * a)) <= 5
                /\ Abs(2 * r.confidence_score - (b.confidence + c)) <= 1
                /\ AdvisedTexts(t)
                /\ b = frame[t].baseline_prediction

\* an advisory of 9.99 t/ha at 85.5 blended with a baseline the crop table
\* gives
C9_Blended ==
    \E t \in Threads :
        /\ ReturnedResult(t)
        /\ Advised(t)
        /\ ~UnknownCrop(t)
        /\ Said(obs[t].outcome, "ai_yield_prediction").num = 999
        /\ ret[t].value.baseline_analysis.predicted_yield_tons_per_hectare # 999
        /\ ret[t].value.risk_factors = List(<<"Pests">>)

InRange(x, range) == range[1] <= x /\ x <= range[2]

\* C10: both suitability functions give exactly 1.0 for an observation in the
\* crop's optimal range, the two ends included.
C10_OptimalIsOne ==
    \A t \in Threads :
        frame[t].scores # None =>
            LET crop_info == crop_data[args[t].crop_type]
                ph == Get(args[t].soil_data, "ph", 650)
                rain == Get(args[t].weather_data, "expected_rainfall", 800)
            IN  /\ InRange(ph, crop_info.optimal_ph)
                   => frame[t].scores.ph_score = 12000
                /\ InRange(rain, crop_info.optimal_rainfall)
                   => frame[t].scores.rainfall_score = 12000

\* pH at the low end and rainfall at the high end of the crop's ranges
C10_AtTheEnds ==
    \E t \in Threads :
        /\ frame[t].scores # None
        /\ Get(args[t].soil_data, "ph", 650)
               = crop_data[args[t].crop_type].optimal_ph[1]
        /\ Get(args[t].weather_data, "expected_rainfall", 800)
               = crop_data[args[t].crop_type].optimal_rainfall[2]
        /\ frame[t].scores.ph_score = 12000
        /\ frame[t].scores.rainfall_score = 12000

\* C11: the pH suitability is 0.0 for a pH two units below the low end of
\* the crop's optimal range, and for every pH further off, below the low end
\* or above the high end; the rainfall suitability is 0.0 for no rainfall.
C11_ZeroPoints ==
    \A t \in Threads :
        frame[t].scores # None =>
            LET crop_info == crop_data[args[t].crop_type]
                ph == Get(args[t].soil_data, "ph", 650)
                rain == Get(args[t].weather_data, "expected_rainfall", 800)
            IN  /\ (ph <= crop_info.optimal_ph[1] - 200
                        \/ ph > crop_info.optimal_ph[2] + 200)
                   => frame[t].scores.ph_score = 0
                /\ rain = 0 => frame[t].scores.rainfall_score = 0

\* pH exactly two units below the low end, and no rain at all
C11_AtTheZeroPoints ==
    \E t \in Threads :
        /\ frame[t].scores # None
        /\ Get(args[t].soil_data, "ph", 650)
               = crop_data[args[t].crop_type].optimal_ph[1] - 200
        /\ Get(args[t].weather_data, "expected_rainfall", 800) = 0
        /\ frame[t].scores.ph_score = 0
        /\ frame[t].scores.rainfall_score = 0

\* the reply parsed: _parse_ai_response returned the object the service wrote
Parsed(o) == o.kind = "reply" /\ JsonWellFormed(ReplySpan(o.text))

\* a number field the reply holds with a value that is no number
WrongNumber(o) == \E k \in NumberFields : Says(o, k) /\ ~IsNum(Said(o, k))

\* C12: a field that a parsed advisory reply lacks takes its default in the
\* blend and fails nothing: a missing confidence counts as 50, a missing
\* advisory yield as the baseline yield, missing risk factors,
\* recommendations and market notes as empty lists.
C12_FieldDefaults ==
    \A t \in Threads :
        (Done(t) /\ Computed(t) /\ Parsed(obs[t].outcome)) =>
            LET o == obs[t].outcome
            IN  /\ RaisedToCaller(t) => WrongNumber(o)
                /\ ReturnedResult(t) =>
                     LET r == ret[t].value
                         b == r.baseline_analysis
                     IN  /\ ~Says(o, "confidence")
                            => Abs(2 * r.confidence_score - (b.confidence + 500)) <= 1
                         /\ ~Says(o, "ai_yield_prediction")
                            => r.yield_per_hectare = b.predicted_yield_tons_per_hectare
                         /\ \A k \in ListFields :
                                ~Says(o, k) => r[k] = List(<<>>)

\* a reply that lacks the advisory yield and the risk factors, blended with
\* a baseline of the crop table
C12_Defaulted ==
    \E t \in Threads :
        /\ ReturnedResult(t)
        /\ Computed(t)
        /\ Parsed(obs[t].outcome)
        /\ ~UnknownCrop(t)
        /\ ~Says(obs[t].outcome, "ai_yield_prediction")
        /\ Says(obs[t].outcome, "confidence")
        /\ ~Says(obs[t].outcome, "risk_factors")
        /\ ret[t].value.yield_per_hectare
               = ret[t].value.baseline_analysis.predicted_yield_tons_per_hectare
        /\ ret[t].value.yield_per_hectare > 0
        /\ ret[t].value.risk_factors = List(<<>>)

\* C13: the confidence score of every result predict_yield returns lies
\* between 0 and 100, whatever the advisory service replied.
C13_ConfidenceInRange ==
    \A t \in Threads :
        ReturnedResult(t) =>
            /\ 0 <= ret[t].value.confidence_score
            /\ ret[t].value.confidence_score <= 1000

\* C13 holds of a baseline blended with an advisory confidence that is a
\* percentage
C13_PercentageIn ==
    \E t \in Threads :
        /\ ReturnedResult(t)
        /\ Advised(t)
        /\ Said(obs[t].outcome, "confidence").num = 800
        /\ ret[t].value.baseline_analysis.confidence = 1000
        /\ ret[t].value.confidence_score = 900

\* the items of a profile, as a set
ItemSet(p) ==
    IF "items" \in DOMAIN p THEN {p.items[i] : i \in 1..Len(p.items)} ELSE {}

\* two profiles that are equal as Python values: both None, or dicts with
\* the same items
SameProfile(p, q) ==
    IF "items" \in DOMAIN p /\ "items" \in DOMAIN q
    THEN ItemSet(p) = ItemSet(q)
    ELSE p = q

\* two dicts that hold different values under one key
DifferInFieldValue(p, q) ==
    /\ "items" \in DOMAIN p
    /\ "items" \in DOMAIN q
    /\ \E i \in 1..Len(p.items), j \in 1..Len(q.items) :
          p.items[i].k = q.items[j].k /\ p.items[i].v # q.items[j].v

\* C14: NutritionAnalyzer._generate_cache_key gives equal keys for equal
\* (meal description, user profile), and different keys for one meal with
\* two profiles that differ in the value of a field.
C14_KeyOfMealAndProfile ==
    \A i, j \in 1..Len(keyCalls) :
        LET a == keyCalls[i]
            b == keyCalls[j]
        IN  /\ (a.meal_description = b.meal_description
                    /\ SameProfile(a.user_profile, b.user_profile))
               => a.key = b.key
            /\ (a.meal_description = b.meal_description
                    /\ DifferInFieldValue(a.user_profile, b.user_profile))
               => a.key # b.key

\* one profile written in two orders and keyed once, and the ages 25 and 30
\* keyed apart
C14_TwoOrdersTwoAges ==
    /\ \E i, j \in 1..Len(keyCalls) :
          /\ keyCalls[i].user_profile # keyCalls[j].user_profile
          /\ SameProfile(keyCalls[i].user_profile, keyCalls[j].user_profile)
          /\ keyCalls[i].meal_description = keyCalls[j].meal_description
          /\ keyCalls[i].key = keyCalls[j].key
    /\ \E i, j \in 1..Len(keyCalls) :
          /\ keyCalls[i].meal_description = keyCalls[j].meal_description
          /\ Item("age", Num(25)) \in ItemSet(keyCalls[i].user_profile)
          /\ Item("age", Num(30)) \in ItemSet(keyCalls[j].user_profile)
          /\ keyCalls[i].key # keyCalls[j].key

\* the request of thread t is a /api/register the handler has answered
Registered(t) ==
    /\ req[t].route = "register"
    /\ req[t].pc = "done"
    /\ req[t].entered

RegisterFields == {"username", "email", "password", "user_type"}

\* C15: a registration with all its fields whose username belongs to a
\* stored user when the handler looks it up is answered 400 "Username
\* already exists" and creates no user; and whatever registrations ran, one
\* after the other or at once, no two stored users share a username.
C15_UniqueUsernames ==
    /\ \A t \in Threads :
          (Registered(t) /\ RegisterFields \subseteq DOMAIN req[t].data
              /\ req[t].taken)
          => /\ req[t].resp = Response(400, "Username already exists")
             /\ ~req[t].created
    /\ \A u1, u2 \in db.users : u1.username = u2.username => u1 = u2

\* a registration answered 400 for its stored username, next to one that
\* passed both queries at the time of another and lost at the commit
C15_RejectedAndRaced ==
    \E t1, t2 \in Threads :
        /\ Registered(t1)
        /\ req[t1].taken
        /\ req[t1].resp = Response(400, "Username already exists")
        /\ Registered(t2)
        /\ req[t2].resp = Response(500, "Registration failed")
        /\ req[t2].data.username = req[t1].data.username
        /\ \E u \in db.users : u.username = req[t1].data.username

\* the request of thread t is a /api/crops/predict that token_required and
\* the handler have answered
Predicted(t) ==
    /\ req[t].route = "predict"
    /\ req[t].pc = "done"
    /\ req[t].entered

\* the users a header authenticates: it is "Bearer " and a token the
\* application signed, not expired, that names a stored user
Authenticated(auth) ==
    {u \in db.users :
        /\ "user_id" \in DOMAIN auth
        /\ auth.signed
        /\ ~auth.expired
        /\ u.id = auth.user_id}

\* C16: /api/crops/predict answers 401 to a request without a valid token
\* and 403 to an authenticated user who is no farmer, and in both cases it
\* calls no advisory service and stores no CropPrediction; every stored
\* CropPrediction belongs to a farmer.
C16_FarmerOnly ==
    /\ \A t \in Threads :
          Predicted(t) =>
            /\ Authenticated(req[t].auth) = {}
               => /\ req[t].resp.status = 401
                  /\ ~req[t].called
                  /\ ~req[t].stored
            /\ (\E u \in Authenticated(req[t].auth) : u.user_type # "farmer")
               => /\ req[t].resp = Response(403, "Farmer access required")
                  /\ ~req[t].called
                  /\ ~req[t].stored
    /\ \A p \in db.crop_predictions :
          \E u \in db.users : u.id = p.farmer_id /\ u.user_type = "farmer"

\* a forged token answered 401 and a donor answered 403, after a farmer's
\* prediction was stored
C16_ForgedAndDonor ==
    \E t1, t2 \in Threads :
        /\ Predicted(t1)
        /\ "user_id" \in DOMAIN req[t1].auth
        /\ ~req[t1].auth.signed
        /\ req[t1].resp.status = 401
        /\ Predicted(t2)
        /\ \E u \in Authenticated(req[t2].auth) : u.user_type = "donor"
        /\ req[t2].resp.status = 403
        /\ db.crop_predictions # {}

\* the lookup of this call found the key's entry expired
ExpiredLookup(t) ==
    /\ pc[t] \notin {"idle", "gfc_test", "gfc_read", "gfc_cmp", "gfc_del"}
    /\ frame[t].entry # None
    /\ ~Live(obs[t].cmpTime, frame[t].entry.timestamp)

\* C17: a lookup that finds its key expired returns None and removes the
\* entry: the call goes on to compute, and the key stays out of the cache
\* until that computation, or a later one, stores a result for it.
C17_LazyEviction ==
    \A t \in Threads :
        ExpiredLookup(t) =>
            /\ ~obs[t].hit
            /\ (pc[t] \in {"baseline", "advisory", "combine", "store"}
                    \/ RaisedToCaller(t))
               => frame[t].cache_key \notin DOMAIN cache
            /\ ReturnedResult(t)
               => /\ Computed(t)
                  /\ frame[t].cache_key \in DOMAIN cache
                  /\ cache[frame[t].cache_key]
                         = [result |-> ret[t].value,
                            timestamp |-> storeTime[frame[t].cache_key]]
                  /\ storeTime[frame[t].cache_key] >= obs[t].cmpTime

\* an entry of the call's key was in the cache when the call began, was
\* found expired, and is gone
C17_Evicted ==
    \E t \in Threads :
        /\ ExpiredLookup(t)
        /\ pc[t] = "baseline"
        /\ frame[t].cache_key \in DOMAIN obs[t].cache0
        /\ frame[t].cache_key \notin DOMAIN cache

\* thread t takes the step that ends a computing call: _cache_result and
\* return result
Stores(t) == pc[t] = "store" /\ pc'[t] = "done"

\* C18: the step that ends a computing call leaves the cache mapping the
\* call's key to the call's result and the time of the store, whatever entry
\* the key had, and the call returns that result: of two calls that computed
\* one key at once, the entry left is that of the later store. A call that
\* went to the advisory service returns a complete result.
C18_LastWriteWins ==
    /\ [][\A t \in Threads :
            Stores(t) =>
                /\ frame[t].cache_key \in DOMAIN cache'
                /\ cache'[frame[t].cache_key]
                       = [result |-> frame[t].result, timestamp |-> now]
                /\ ret'[t] = Returned(frame[t].result)]_vars
    /\ [](\A t \in Threads :
            (Done(t) /\ Computed(t))
            => /\ ReturnedResult(t)
               /\ DOMAIN ret[t].value = ResultFields)

\* two calls found one key uncached, both asked the advisory service and
\* returned results that differ; the cache holds one of the two
C18_TwoWriters ==
    \E t1, t2 \in Threads :
        /\ t1 # t2
        /\ ReturnedResult(t1) /\ Computed(t1)
        /\ ReturnedResult(t2) /\ Computed(t2)
        /\ frame[t1].cache_key = frame[t2].cache_key
        /\ frame[t1].cache_key \notin DOMAIN obs[t1].cache0
        /\ frame[t2].cache_key \notin DOMAIN obs[t2].cache0
        /\ ret[t1].value # ret[t2].value
        /\ cache[frame[t1].cache_key].result = ret[t1].value

\* thread t takes a step of its predict_yield call
Steps(t) == pc'[t] # pc[t] \/ frame'[t] # frame[t] \/ ret'[t] # ret[t]

\* C19: a step of predict_yield changes no cache entry but that of the
\* call's own key: the entries of the other keys, expired or not, stay as
\* they are; a key leaves the cache only in the lookup that finds it
\* expired, and a key enters it only in the store of a call on that key.
C19_OwnKeyOnly ==
    [][\A t \in Threads :
          Steps(t) =>
              /\ \A k \in (DOMAIN cache \cup DOMAIN cache') \ {frame'[t].cache_key} :
                    /\ k \in DOMAIN cache
                    /\ k \in DOMAIN cache'
                    /\ cache'[k] = cache[k]
              /\ \A k \in DOMAIN cache \ DOMAIN cache' :
                    /\ pc[t] = "gfc_del"
                    /\ ~Live(now, cache[k].timestamp)
              /\ \A k \in DOMAIN cache' \ DOMAIN cache : pc[t] = "store"]_vars

\* a call on one key ends while the cache holds an expired entry of another
\* key, which stays
C19_OtherKeyExpired ==
    \E t \in Threads :
        /\ ReturnedResult(t)
        /\ Computed(t)
        /\ \E k \in DOMAIN cache :
              /\ k # frame[t].cache_key
              /\ k \in DOMAIN obs[t].cache0
              /\ cache[k] = obs[t].cache0[k]
              /\ ~Live(storeTime[frame[t].cache_key], cache[k].timestamp)

\* the inputs the cache key is derived from
InputTuple(a) == <<a.crop_type, a.location, a.soil_data, a.weather_data>>

\* C20: two calls whose (crop, location, soil fields, weather fields) differ
\* never derive the same cache key, so neither is answered with the other's
\* cached result.
C20_CollisionFree ==
    \A t \in Threads :
        (pc[t] # "idle" /\ prev # None
            /\ InputTuple(prev.args) # InputTuple(args[t]))
        => prev.cache_key # frame[t].cache_key

\* the call for the unknown crop "sweet" at "potato_Nakuru" is a cache hit
\* that returns the sweet potato result of "Nakuru"
C20_ServedTheOthers ==
    \E t \in Threads :
        /\ ReturnedResult(t)
        /\ obs[t].hit
        /\ args[t].crop_type = "sweet"
        /\ prev.args.crop_type = "sweet_potato"
        /\ ret[t] = prev.ret
        /\ ret[t].value.baseline_analysis # _get_generic_prediction

\* the positions of the first "{" and of the last "}" of a reply text, 0 if
\* there is none
FirstOpen(text) ==
    LET at == {i \in 1..Len(text) : text[i] = LB}
    IN  IF at = {} THEN 0 ELSE CHOOSE i \in at : \A j \in at : i <= j

LastClose(text) ==
    LET at == {i \in 1..Len(text) : text[i] = RB}
    IN  IF at = {} THEN 0 ELSE CHOOSE i \in at : \A j \in at : i >= j

\* the span from the first "{" to the last "}" exists and is a JSON object:
\* nothing but members between the two braces
SpanParses(text) ==
    /\ FirstOpen(text) > 0
    /\ LastClose(text) > FirstOpen(text)
    /\ \A i \in (FirstOpen(text) + 1)..(LastClose(text) - 1) : text[i].c = "kv"

\* the object of that span: each key with the value of its last member
SpanObject(text) ==
    LET in == (FirstOpen(text) + 1)..(LastClose(text) - 1)
    IN  [k \in {text[i].k : i \in in} |->
            text[CHOOSE i \in in :
                    /\ text[i].k = k
                    /\ \A j \in in : text[j].k = k => j <= i].v]

\* C21: _parse_ai_response raises for no reply text: it returns the JSON
\* object of the span from the first "{" to the last "}" of the reply, or,
\* when there is no such span or it does not parse, the fallback advisory.
C21_ParseNeverRaises ==
    \A t \in Threads :
        (obs[t].called /\ obs[t].outcome.kind = "reply") =>
            LET text == obs[t].outcome.text
            IN  /\ frame[t].ai_analysis # None
                /\ ~IsRaised(frame[t].ai_analysis)
                /\ frame[t].ai_analysis =
                       IF SpanParses(text) THEN SpanObject(text)
                       ELSE _get_fallback_ai_analysis

\* a reply of prose and then an object with one member, parsed to that
\* member
C21_ProseAroundObject ==
    \E t \in Threads :
        /\ obs[t].called
        /\ obs[t].outcome.kind = "reply"
        /\ Len(obs[t].outcome.text) = 4
        /\ obs[t].outcome.text[1] = Txt
        /\ obs[t].outcome.text[2] = LB
        /\ SpanParses(obs[t].outcome.text)
        /\ frame[t].ai_analysis = [confidence |-> Num(600)]

\* C22: for every observed pH and rainfall, negative and very large ones
\* included, and every crop of the table, both suitability scores lie in
\* [0, 1], and a score is below 1.0 whenever the observation is outside the
\* crop's optimal range.
C22_ScoresInUnitInterval ==
    \A t \in Threads :
        frame[t].scores # None =>
            LET crop_info == crop_data[args[t].crop_type]
                ph == Get(args[t].soil_data, "ph", 650)
                rain == Get(args[t].weather_data, "expected_rainfall", 800)
                s == frame[t].scores
            IN  /\ 0 <= s.ph_score /\ s.ph_score <= ScoreOne
                /\ 0 <= s.rainfall_score /\ s.rainfall_score <= ScoreOne
                /\ ~InRange(ph, crop_info.optimal_ph) => s.ph_score < ScoreOne
                /\ ~InRange(rain, crop_info.optimal_rainfall)
                   => s.rainfall_score < ScoreOne

\* a rainfall of 1 mm above the crop's optimal range, scored between 0 and 1
C22_JustOutside ==
    \E t \in Threads :
        /\ frame[t].scores # None
        /\ Get(args[t].weather_data, "expected_rainfall", 800)
               = crop_data[args[t].crop_type].optimal_rainfall[2] + 1
        /\ frame[t].scores.rainfall_score > 0
        /\ frame[t].scores.rainfall_score < ScoreOne

\* C23: on each path where predict_yield uses the fixed fallback advisory
\* (the advisory call raised, or its reply could not be parsed), a warning is
\* logged before the result is returned.
C23_FallbackIsLogged ==
    \A t \in Threads :
        (ReturnedResult(t) /\ Computed(t) /\ Unavailable(obs[t].outcome))
            => obs[t].warned

\* the advisory call raised: the fallback stands in and the warning is logged
C23_ServiceErrorLogged ==
    \E t \in Threads :
        /\ ReturnedResult(t)
        /\ Computed(t)
        /\ obs[t].outcome.kind = "error"
        /\ obs[t].warned

\* the baseline yield before its rounding, in 1/(2 * ScoreOne) of a ton, and
\* the baseline confidence before its rounding, in 1/(2 * ScoreOne) of 100
UnroundedYield2(t) ==
    LET crop_info == crop_data[args[t].crop_type]
        overall2 == frame[t].scores.ph_score + frame[t].scores.rainfall_score
    IN  crop_info.yield_range[1] * 2 * ScoreOne
            + (crop_info.yield_range[2] - crop_info.yield_range[1]) * overall2

UnroundedConfidence2(t) ==
    frame[t].scores.ph_score + frame[t].scores.rainfall_score

\* C24: the rounded baseline figures are not fed into further arithmetic: the
\* final yield and confidence are the blend of the unrounded baseline yield
\* and confidence, rounded once at the end.
C24_BlendOfUnrounded ==
    \A t \in Threads :
        (ReturnedResult(t) /\ Advised(t) /\ ~UnknownCrop(t)) =>
            LET r == ret[t].value
                a == Said(obs[t].outcome, "ai_yield_prediction").num
                c == Said(obs[t].outcome, "confidence").num
            IN  /\ r.yield_per_hectare
                     \in Round(700 * UnroundedYield2(t) + 6 * ScoreOne * a,
                               20 * ScoreOne)
                /\ r.confidence_score
                     \in Round(1000 * UnroundedConfidence2(t) + 2 * ScoreOne * c,
                               4 * ScoreOne)

\* a baseline yield that is no whole hundredth of a ton, blended with an
\* advisory yield
C24_RoundedBaselineBlended ==
    \E t \in Threads :
        /\ ReturnedResult(t)
        /\ Advised(t)
        /\ ~UnknownCrop(t)
        /\ (UnroundedYield2(t) * 100) % (2 * ScoreOne) # 0

Degraded(result) ==
    /\ result.risk_factors = _get_fallback_ai_analysis.risk_factors
    /\ result.recommendations = _get_fallback_ai_analysis.recommendations
    /\ result.planting_time = _get_fallback_ai_analysis.planting_time
    /\ result.market_considerations = _get_fallback_ai_analysis.market_considerations

\* C26: a result computed from the fallback advisory is stored like any
\* other, and a call for the same key whose lookup comes within 7200 s of the
\* store returns that degraded result without calling the advisory service.
C26_DegradedIsCached ==
    /\ [][\A t \in Threads :
            (Stores(t) /\ Unavailable(obs[t].outcome)) =>
                /\ Degraded(frame[t].result)
                /\ frame[t].cache_key \in DOMAIN cache'
                /\ cache'[frame[t].cache_key]
                       = [result |-> frame[t].result, timestamp |-> now]]_vars
    /\ [](\A t \in Threads :
            (Looked(t) /\ Age(t) < cache_ttl /\ Degraded(Found(t).result)) =>
                /\ ReturnedResult(t)
                /\ ret[t].value = Found(t).result
                /\ ~Computed(t)
                /\ cache = obs[t].cache0)

\* the call before this one fell back on the fixed advisory, and this one,
\* 7199 s after the store, is served that result from the cache
C26_DegradedServedAgain ==
    \E t \in Threads :
        /\ ReturnedResult(t)
        /\ Looked(t)
        /\ Age(t) = cache_ttl - 1
        /\ obs[t].hit
        /\ ~Computed(t)
        /\ Degraded(ret[t].value)
        /\ prev # None
        /\ prev.cache_key = frame[t].cache_key
        /\ ~prev.hit
        /\ prev.args = args[t]

\* the request of thread t has its response
Answered(t) == sreq[t].pc \in {"teardown", "done"}

\* the request of thread t carries a token that verify_token accepts
GoodToken(t) == "bearer" \in DOMAIN sreq[t].auth /\ sreq[t].auth.bearer.good

\* C27: once TokenManager.revoke_token(jti) has been called for a token,
\* every later request that presents the token to a handler under
\* require_auth is answered 401 'Token has been revoked' and the handler
\* does not run.
C27_RevocationDurable ==
    \A t \in Threads :
        (/\ Answered(t)
         /\ FirstDecorator(sreq[t].route) = "require_auth"
         /\ GoodToken(t)
         /\ sreq[t].auth.bearer.jti \in sreq[t].revoked0)
        => /\ sreq[t].resp = Response(401, "Token has been revoked")
           /\ ~sreq[t].ran

\* logout has revoked the token of its request: the g of that request holds
\* the jti
C27_RevokedInItsRequest ==
    \E t \in Threads :
        /\ sreq[t].pc = "teardown"
        /\ sreq[t].route = "logout"
        /\ sreq[t].ran
        /\ is_token_revoked(g[t], sreq[t].payload.jti)
        /\ sreq[t].payload.jti \in hist.revoked

\* the request of thread t came to the rate_limit decorator of its handler
Limited(t) ==
    /\ Answered(t)
    /\ \/ sreq[t].route = "ping"
       \/ sreq[t].route = "report" /\ sreq[t].payload # None

\* C28: a handler under rate_limit(requests_per_hour=N) answers 429 'Rate
\* limit exceeded' and does not run once the same caller has made N requests
\* for it in the last 3600 s.
C28_LimitEnforced ==
    \A t \in Threads :
        (Limited(t) /\ sreq[t].earlier >= requests_per_hour)
        => /\ sreq[t].resp = Response(429, "Rate limit exceeded")
           /\ ~sreq[t].ran

\* a caller's second request for report within the hour, let through
C28_BelowTheLimit ==
    \E t \in Threads :
        /\ Limited(t)
        /\ sreq[t].route = "report"
        /\ sreq[t].earlier = requests_per_hour - 1
        /\ sreq[t].ran
        /\ sreq[t].resp.status = 200

\* the calls before call i for the same key that Redis answered and that
\* fall in the window before call i
CallsBefore(i) ==
    {j \in 1..(i - 1) :
        /\ hist.calls[j].key = hist.calls[i].key
        /\ ~hist.calls[j].failed
        /\ hist.calls[j].time > hist.calls[i].time - CallWindow}

\* C29: with a Redis client, is_rate_limited(key, limit, window) returns True
\* exactly when at least `limit` earlier calls for the key fall within the
\* last `window` seconds, calls of one second included; so of the calls for
\* one key in a window no more than `limit` are answered False.
C29_SlidingWindow ==
    \A i \in 1..Len(hist.calls) :
        ~hist.calls[i].failed =>
            /\ hist.calls[i].limited <=> Cardinality(CallsBefore(i)) >= CallLimit
            /\ Cardinality({j \in CallsBefore(i) \cup {i} :
                               ~hist.calls[j].limited}) <= CallLimit

\* a third call in the window of two calls of other seconds, answered True
C29_ThirdCallLimited ==
    \E i \in 1..Len(hist.calls) :
        /\ hist.calls[i].limited
        /\ Cardinality(CallsBefore(i)) = CallLimit
        /\ \A j \in CallsBefore(i) : hist.calls[j].time < hist.calls[i].time

\* the request of thread t is a finished POST /api/donate
Donated(t) == req[t].route = "donate" /\ req[t].pc = "done"

\* the payment initiation of the request returned the gateway's object, with
\* no 'error' in it
PaymentOk(t) ==
    /\ req[t].called
    /\ IsObject(req[t].payment_response)
    /\ "error" \notin DOMAIN req[t].payment_response.object

\* the gateway answered the request's payment with another status than 200,
\* or was unreachable
GatewayFailed(t) ==
    /\ req[t].called
    /\ req[t].gateway # None
    /\ \/ req[t].gateway.kind = "unreachable"
       \/ req[t].gateway.kind = "response" /\ req[t].gateway.status_code # 200

====
